---- MODULE Spec2Model ----
(***************************************************************************)
(* Model of the change-analysis engine of auto-pr (package internal/git).  *)
(*                                                                         *)
(* Text is modelled as finite sequences of one-character strings; the      *)
(* output of an external git query is such a sequence with "\n" between    *)
(* its lines, or the value Fail when the query exits with an error.  The   *)
(* parsers are the operators below, written after the Go code.  Every      *)
(* public operation of the Analyzer is one action; what git answers is     *)
(* chosen by the action from small sets of outputs.                        *)
(***************************************************************************)
EXTENDS Naturals, Integers, Sequences, FiniteSets, TLC

VARIABLES
    op,             \* the operation that returned last ("idle" before any)
    changes,        \* mergeFileChanges: the slice passed in
    merged,         \* mergeFileChanges: the slice returned
    remerged,       \* mergeFileChanges applied to its own result
    statusListing,  \* lines printed by git status --porcelain=v1, or Fail
    statusResult,   \* what getFileStatuses returned
    limitArg,       \* the limit argument of GetCommitHistory
    baseBranch,     \* the baseBranch argument of the operation
    refs,           \* which of origin/<base> and <base> resolve in the repository
    headOK,         \* whether HEAD names a commit
    logListing,     \* lines printed by git log, per range (or for -<limit>)
    now,            \* time.Now().Unix() during the call
    queries,        \* the git queries the operation ran, in order
    historyResult,  \* what GetCommitHistory / GetCommitsSinceBase returned
    statListing,    \* lines printed by git diff --stat, or Fail
    nameStatusListing, \* lines printed by git diff --name-status, per query
    numstatTable,   \* outcome of git diff --numstat -- <path>, per path
    diffResult,     \* what GetDiffSummary / GetBranchDiff returned
    parseArg,       \* the text given to a parser, as lines (or a status code)
    parseStats,     \* outcome of git diff --numstat -- <path>, per path
    parseOut,       \* what the parser returned
    rangeOrder,     \* the order in which range visits binaryExtensions
    gitEntry,       \* what is found at <repoPath>/.git
    gitWorks,       \* whether git answers queries at repoPath
    indexOK,        \* whether git can read the index of the working copy
    originURL,      \* the URL of the remote origin, or Fail without one
    originHead,     \* the ref refs/remotes/origin/HEAD points to, or Fail
    remoteBranches, \* the branches that exist as refs/remotes/origin/<name>
    branchOutput,   \* what git branch --show-current prints
    statusOutput,   \* lines printed by git status --porcelain=v1
    repoResult,     \* what the operation returned
    repoPath,       \* the repoPath field of the Analyzer
    calls,          \* the calls in flight on the Analyzer, per goroutine
    shipIn,         \* runShip: the flags, the repository's answers and its status
    shipPc,         \* runShip: the statement the command has reached
    workflowPlan,   \* runShip: the plan in use
    needsPush,      \* runShip: local variable needsPush
    performed,      \* runShip: the mutating commands run so far, with their success
    shipErr,        \* runShip: the error to return ("" is nil)
    configArg,      \* ValidateConfig: the configuration passed, as the call leaves it
    configErr,      \* ValidateConfig: the returned error
    tree,           \* per-file counts: per path, its line counts in each diff
    treeResult,     \* per-file counts: the FileChange entries returned
    logged,         \* header round trip: the commit git log prints
    headerLine,     \* header round trip: its header line
    parsedBack      \* header round trip: what parseCommitHistory returns for it

mergeVars == <<changes, merged, remerged>>
statusVars == <<statusListing, statusResult>>
repoVars == <<baseBranch, refs, headOK, queries>>
historyVars == <<limitArg, logListing, now, historyResult>>
diffVars == <<statListing, nameStatusListing, numstatTable, diffResult>>
parseVars == <<parseArg, parseStats, parseOut, rangeOrder>>
worktreeVars == <<gitEntry, gitWorks, indexOK, originURL, originHead, remoteBranches,
                  branchOutput, statusOutput, repoResult>>
analyzerVars == <<repoPath, calls>>
shipVars == <<shipIn, shipPc, workflowPlan, needsPush, performed, shipErr>>
configVars == <<configArg, configErr>>
treeVars == <<tree, treeResult>>
formatVars == <<logged, headerLine, parsedBack>>
vars == <<op, mergeVars, statusVars, repoVars, historyVars, diffVars, parseVars,
          worktreeVars,
          analyzerVars,
          shipVars,
          configVars,
          treeVars,
          formatVars>>

(***************************************************************************)
(* Bounds of the model.                                                    *)
(***************************************************************************)
MaxChanges == 3     \* longest slice handed to mergeFileChanges
MaxStatusLines == 2 \* most lines of a status listing
MaxLogLines == 3    \* most lines of the log listing of GetCommitHistory
MaxSinceLines == 2  \* most lines of a log listing of GetCommitsSinceBase
MaxNameStatusLines == 2 \* most lines of a name-status listing
MaxStatLines == 1   \* most lines of a stat listing
MaxParseLines == 2  \* most lines given to parseNameStatus on its own
MaxStatParseLines == 2 \* most lines given to parseStatOutput on its own

(***************************************************************************)
(* Generic helpers.                                                        *)
(***************************************************************************)
Range(s) == {s[i] : i \in 1..Len(s)}

SeqsUpTo(S, n) == UNION {[1..k -> S] : k \in 0..n}

\* all orders in which the elements of the finite set S can be listed
Orders(S) == {s \in [1..Cardinality(S) -> S] : Range(s) = S}

(***************************************************************************)
(* Text: the Go string functions the parsers call.                         *)
(***************************************************************************)
\* the white space of the modelled alphabet (unicode.IsSpace)
IsSpace(c) == c \in {" ", "\t", "\n"}

RECURSIVE TrimLeft(_)
TrimLeft(s) == IF s # <<>> /\ IsSpace(Head(s)) THEN TrimLeft(Tail(s)) ELSE s

RECURSIVE TrimRight(_)
TrimRight(s) ==
    IF s # <<>> /\ IsSpace(s[Len(s)]) THEN TrimRight(SubSeq(s, 1, Len(s) - 1)) ELSE s

\* strings.TrimSpace
TrimSpace(s) == TrimRight(TrimLeft(s))

\* strings.Contains(s, c) and strings.Count(s, c) for a one-character c
Contains(s, c) == \E i \in 1..Len(s) : s[i] = c

Count(s, c) == Cardinality({i \in 1..Len(s) : s[i] = c})

\* strings.Split(s, c) for a one-character separator c: the pieces between
\* the separators, empty pieces included (never an empty list)
RECURSIVE SplitFrom(_, _, _)
SplitFrom(s, c, piece) ==
    IF s = <<>> THEN <<piece>>
    ELSE IF Head(s) = c THEN <<piece>> \o SplitFrom(Tail(s), c, <<>>)
    ELSE SplitFrom(Tail(s), c, Append(piece, Head(s)))

Split(s, c) == SplitFrom(s, c, <<>>)

\* strings.Fields: the maximal runs of non-space characters
RECURSIVE FieldsFrom(_, _)
FieldsFrom(s, field) ==
    IF s = <<>> THEN (IF field = <<>> THEN <<>> ELSE <<field>>)
    ELSE IF IsSpace(Head(s))
         THEN (IF field = <<>> THEN <<>> ELSE <<field>>) \o FieldsFrom(Tail(s), <<>>)
    ELSE FieldsFrom(Tail(s), Append(field, Head(s)))

Fields(s) == FieldsFrom(s, <<>>)

\* strings.HasSuffix
HasSuffix(s, suffix) ==
    /\ Len(suffix) <= Len(s)
    /\ SubSeq(s, Len(s) - Len(suffix) + 1, Len(s)) = suffix

\* the text of several lines, each ended by a newline
RECURSIVE JoinLines(_)
JoinLines(lines) ==
    IF lines = <<>> THEN <<>> ELSE Head(lines) \o <<"\n">> \o JoinLines(Tail(lines))

(***************************************************************************)
(* External queries and bufio.Scanner.                                     *)
(***************************************************************************)
\* the outcome of a query: its output, or an error exit
Output(text) == [ok |-> TRUE, out |-> text]

Fail == [ok |-> FALSE, out |-> <<>>]

\* no error
Nil == "nil"

\* the outcome of a query whose output has the lines of a listing
AsText(listing) == [ok |-> listing.ok, out |-> JoinLines(listing.out)]

\* One character of the model that stands for a run of bytes without a
\* newline that is longer than the scanner's buffer (bufio.MaxScanTokenSize).
LongRun == "#"

ErrTooLong == "bufio.Scanner: token too long"

\* the lines of a text as bufio.ScanLines cuts them: the text between the
\* newlines, without a last empty piece, each without a trailing "\r"
DropCR(line) ==
    IF line # <<>> /\ line[Len(line)] = "\r" THEN SubSeq(line, 1, Len(line) - 1)
    ELSE line

TextLines(text) ==
    LET pieces == Split(text, "\n")
        kept   == IF pieces[Len(pieces)] = <<>>
                  THEN SubSeq(pieces, 1, Len(pieces) - 1) ELSE pieces
    IN  [i \in 1..Len(kept) |-> DropCR(kept[i])]

\* scanner.Scan / scanner.Text / scanner.Err over a text: the lines the loop
\* sees, which end before the first line too long for the buffer, and the
\* error the scanner then holds
Scan(text) ==
    LET all   == TextLines(text)
        long  == {i \in 1..Len(all) : Contains(all[i], LongRun)}
        first == IF long = {} THEN Len(all) + 1
                 ELSE CHOOSE i \in long : \A j \in long : i <= j
    IN  [lines |-> SubSeq(all, 1, first - 1),
         err   |-> IF long = {} THEN Nil ELSE ErrTooLong]

(***************************************************************************)
(* pkg/types: ChangeStatus and FileChange.                                 *)
(***************************************************************************)
StatusAdded     == "added"
StatusModified  == "modified"
StatusDeleted   == "deleted"
StatusRenamed   == "renamed"
StatusCopied    == "copied"
StatusUntracked == "untracked"

FileChange(path, status, additions, deletions, isBinary) ==
    [Path |-> path, Status |-> status, Additions |-> additions,
     Deletions |-> deletions, IsBinary |-> isBinary]

(***************************************************************************)
(* mergeFileChanges (analyzer.go).                                         *)
(***************************************************************************)
\* a mutation: the first status is kept instead of the latest
mergeEntryKeepsStatus(existing, change) ==
    FileChange(change.Path, existing.Status,
               existing.Additions + change.Additions,
               existing.Deletions + change.Deletions,
               existing.IsBinary \/ change.IsBinary)

\* the merged value stored for a path that is already in the map
mergeEntry(existing, change) ==
    FileChange(change.Path, change.Status,
               existing.Additions + change.Additions,
               existing.Deletions + change.Deletions,
               existing.IsBinary \/ change.IsBinary)

\* fileMap after the loop over changes[1..n]
RECURSIVE fileMapAfter(_, _)
fileMapAfter(chs, n) ==
    IF n = 0 THEN << >>
    ELSE LET fileMap == fileMapAfter(chs, n - 1)
             change  == chs[n]
         IN  IF change.Path \in DOMAIN fileMap
             THEN [p \in DOMAIN fileMap |->
                     IF p = change.Path THEN mergeEntry(fileMap[p], change)
                                        ELSE fileMap[p]]
             ELSE [p \in DOMAIN fileMap \cup {change.Path} |->
                     IF p = change.Path THEN change ELSE fileMap[p]]

\* a mutation: the result slice is built inside the loop, one entry per input
mergeFileChangesInLoop(chs) ==
    {[i \in 1..Len(chs) |-> fileMapAfter(chs, i)[chs[i].Path]]}

\* The slices mergeFileChanges may return: the values of fileMap, in any
\* order (Go leaves the iteration order of a map unspecified).
mergeFileChanges(chs) ==
    LET fileMap == fileMapAfter(chs, Len(chs))
    IN  {[i \in 1..Len(keys) |-> fileMap[keys[i]]] : keys \in Orders(DOMAIN fileMap)}

(***************************************************************************)
(* Slices that may be nil, and pkg/types CommitInfo.                       *)
(***************************************************************************)
NilSlice == [isNil |-> TRUE, items |-> <<>>]

EmptySlice == [isNil |-> FALSE, items |-> <<>>]

\* a slice built by append calls from a nil slice
Appended(items) == [isNil |-> items = <<>>, items |-> items]

CommitInfo(hash, message, author, email, date, files) ==
    [Hash |-> hash, Message |-> message, Author |-> author, Email |-> email,
     Date |-> date, Files |-> files, Diff |-> <<>>]

(***************************************************************************)
(* strconv.ParseInt(s, 10, 64) on the digits of the model.                 *)
(***************************************************************************)
Digits == <<"0", "1", "2", "3", "4", "5", "6", "7", "8", "9">>

IsDigit(c) == \E i \in 1..Len(Digits) : Digits[i] = c

DigitValue(c) == (CHOOSE i \in 1..Len(Digits) : Digits[i] = c) - 1

RECURSIVE DecimalValue(_)
DecimalValue(ds) ==
    IF ds = <<>> THEN 0
    ELSE 10 * DecimalValue(SubSeq(ds, 1, Len(ds) - 1)) + DigitValue(ds[Len(ds)])

\* [ok, value]: a sign may precede the digits, of which there is at least one
ParseInt(s) ==
    LET signed == s # <<>> /\ Head(s) \in {"+", "-"}
        ds     == IF signed THEN Tail(s) ELSE s
    IN  IF ds # <<>> /\ \A i \in 1..Len(ds) : IsDigit(ds[i])
        THEN [ok |-> TRUE,
              value |-> IF signed /\ Head(s) = "-" THEN 0 - DecimalValue(ds)
                        ELSE DecimalValue(ds)]
        ELSE [ok |-> FALSE, value |-> 0]

(***************************************************************************)
(* parseCommitHistory (commits.go).                                        *)
(***************************************************************************)
NoCommit == [open |-> FALSE]

OpenCommit(commit) == [open |-> TRUE, commit |-> commit]

\* the commit a header line with at least five fields opens
headerCommit(parts, nowUnix) ==
    LET timestamp == ParseInt(parts[5])
    IN  CommitInfo(parts[1], parts[2], parts[3], parts[4],
                   IF timestamp.ok THEN timestamp.value ELSE nowUnix, <<>>)

\* a variant that opens no commit for a header whose timestamp is no number
afterHeaderLineStrict(state, line, nowUnix) ==
    LET saved == IF state.current.open
                 THEN Append(state.commits, state.current.commit)
                 ELSE state.commits
        parts == Split(line, "|")
    IN  IF Len(parts) >= 5 /\ ParseInt(parts[5]).ok
        THEN [commits |-> saved, current |-> OpenCommit(headerCommit(parts, nowUnix))]
        ELSE IF Len(parts) >= 5
        THEN [commits |-> saved, current |-> NoCommit]
        ELSE [commits |-> saved, current |-> state.current]

\* commits and currentCommit after a line that contains the delimiter
afterHeaderLine(state, line, nowUnix) ==
    LET saved == IF state.current.open
                 THEN Append(state.commits, state.current.commit)
                 ELSE state.commits
        parts == Split(line, "|")
    IN  IF Len(parts) >= 5
        THEN [commits |-> saved, current |-> OpenCommit(headerCommit(parts, nowUnix))]
        ELSE [commits |-> saved, current |-> state.current]

\* commits and currentCommit after a line without the delimiter
afterFileLine(state, line) ==
    IF state.current.open
    THEN [commits |-> state.commits,
          current |-> OpenCommit([state.current.commit EXCEPT
                                     !.Files = Append(@, line)])]
    ELSE state

\* commits and currentCommit after the loop over lines[1..n]
RECURSIVE commitsAfter(_, _, _)
commitsAfter(lines, n, nowUnix) ==
    IF n = 0 THEN [commits |-> <<>>, current |-> NoCommit]
    ELSE LET before == commitsAfter(lines, n - 1, nowUnix)
             line   == TrimSpace(lines[n])
         IN  IF line = <<>> THEN before
             ELSE IF Contains(line, "|") THEN afterHeaderLine(before, line, nowUnix)
             ELSE afterFileLine(before, line)

\* parseCommitHistory: [commits, err]
parseCommitHistory(output, nowUnix) ==
    LET scanner == Scan(output)
        final   == commitsAfter(scanner.lines, Len(scanner.lines), nowUnix)
        commits == IF final.current.open
                   THEN Append(final.commits, final.current.commit)
                   ELSE final.commits
    IN  [commits |-> Appended(commits), err |-> scanner.err]

(***************************************************************************)
(* The repository as the queries see it.                                   *)
(***************************************************************************)
RemoteRef(base) == <<"origin", base>>

LocalRef(base) == <<"local", base>>

HeadRef == <<"", "HEAD">>

Query(cmd, ref, limit) == [cmd |-> cmd, ref |-> ref, limit |-> limit]

\* What git answers in a repository that does not change during the call:
\* rev-parse --verify succeeds for the refs that resolve, and a log over
\* <ref>..HEAD prints its listing when the ref resolves and HEAD is a commit.
LogOutcome(resolving, head, listings) ==
    [r \in DOMAIN listings |->
        IF r \in resolving /\ head THEN Output(listings[r]) ELSE Fail]

Git(resolving, head, listings) ==
    [revParse |-> [r \in DOMAIN listings |-> r \in resolving],
     log      |-> [r \in DOMAIN listings |->
                     AsText(LogOutcome(resolving, head, listings)[r])]]

(***************************************************************************)
(* GetCommitHistory and GetCommitsSinceBase (commits.go).                  *)
(***************************************************************************)
DefaultLimit == 10

DefaultBase == "main"

ErrCommitHistory == "failed to get commit history"
ErrBaseNotFound == "base branch not found"
ErrCommitsSinceBase == "failed to get commits since base"

History(commits, err, ran) == [commits |-> commits, err |-> err, queries |-> ran]

\* GetCommitHistory(limit), given the outcome of the log query
GetCommitHistory(limit, output, nowUnix) ==
    LET n      == IF limit <= 0 THEN DefaultLimit ELSE limit
        ran    == <<Query("log", HeadRef, n)>>
        parsed == parseCommitHistory(output.out, nowUnix)
    IN  IF ~output.ok THEN History(NilSlice, ErrCommitHistory, ran)
        ELSE History(parsed.commits, parsed.err, ran)

\* a mutation: blank log output goes to the parser like any other
commitsOfLogUnchecked(output, nowUnix) == parseCommitHistory(output, nowUnix)

\* the result for the output of the log query over <base>..HEAD
commitsOfLog(output, nowUnix) ==
    IF TrimSpace(output) = <<>> THEN [commits |-> EmptySlice, err |-> Nil]
    ELSE parseCommitHistory(output, nowUnix)

\* a mutation: the local ref is verified first
sinceBaseLocalFirst(base, git, nowUnix) ==
    LET b == IF base = "" THEN DefaultBase ELSE base
        verifyLocal  == Query("rev-parse", LocalRef(b), 0)
        verifyRemote == Query("rev-parse", RemoteRef(b), 0)
        logLocal     == Query("log", LocalRef(b), 0)
        logRemote    == Query("log", RemoteRef(b), 0)
        verified == IF git.revParse[LocalRef(b)] THEN <<verifyLocal>>
                    ELSE <<verifyLocal, verifyRemote>>
    IN  IF ~git.revParse[LocalRef(b)] /\ ~git.revParse[RemoteRef(b)]
        THEN History(NilSlice, ErrBaseNotFound, verified)
        ELSE IF git.log[LocalRef(b)].ok
        THEN LET r == commitsOfLog(git.log[LocalRef(b)].out, nowUnix)
             IN  History(r.commits, r.err, verified \o <<logLocal>>)
        ELSE IF git.log[RemoteRef(b)].ok
        THEN LET r == commitsOfLog(git.log[RemoteRef(b)].out, nowUnix)
             IN  History(r.commits, r.err, verified \o <<logLocal, logRemote>>)
        ELSE History(NilSlice, ErrCommitsSinceBase,
                     verified \o <<logLocal, logRemote>>)

\* GetCommitsSinceBase(baseBranch), given what git answers
GetCommitsSinceBase(base, git, nowUnix) ==
    LET b == IF base = "" THEN DefaultBase ELSE base
        verifyRemote == Query("rev-parse", RemoteRef(b), 0)
        verifyLocal  == Query("rev-parse", LocalRef(b), 0)
        logRemote    == Query("log", RemoteRef(b), 0)
        logLocal     == Query("log", LocalRef(b), 0)
        verified == IF git.revParse[RemoteRef(b)] THEN <<verifyRemote>>
                    ELSE <<verifyRemote, verifyLocal>>
    IN  IF ~git.revParse[RemoteRef(b)] /\ ~git.revParse[LocalRef(b)]
        THEN History(NilSlice, ErrBaseNotFound, verified)
        ELSE IF git.log[RemoteRef(b)].ok
        THEN LET r == commitsOfLog(git.log[RemoteRef(b)].out, nowUnix)
             IN  History(r.commits, r.err, verified \o <<logRemote>>)
        ELSE IF git.log[LocalRef(b)].ok
        THEN LET r == commitsOfLog(git.log[LocalRef(b)].out, nowUnix)
             IN  History(r.commits, r.err, verified \o <<logRemote, logLocal>>)
        ELSE History(NilSlice, ErrCommitsSinceBase,
                     verified \o <<logRemote, logLocal>>)

(***************************************************************************)
(* getFileStatuses (analyzer.go).                                          *)
(***************************************************************************)
\* a mutation: a file whose index status is '?' counts as staged
IsStagedCodeAny(indexStatus) == indexStatus # " "

IsStagedCode(indexStatus) == indexStatus # " " /\ indexStatus # "?"

IsUnstagedCode(workTreeStatus) == workTreeStatus # " " /\ workTreeStatus # "?"

IsUntrackedCode(indexStatus, workTreeStatus) ==
    indexStatus = "?" /\ workTreeStatus = "?"

\* staged, unstaged and untracked after the loop over lines[1..n]
RECURSIVE fileStatusesAfter(_, _)
fileStatusesAfter(lines, n) ==
    IF n = 0 THEN [staged |-> <<>>, unstaged |-> <<>>, untracked |-> <<>>]
    ELSE LET before == fileStatusesAfter(lines, n - 1)
             line   == lines[n]
         IN  IF Len(line) < 3 THEN before
             ELSE LET indexStatus    == line[1]
                      workTreeStatus == line[2]
                      filename       == SubSeq(line, 4, Len(line))
                  IN  [staged |->
                          IF IsStagedCode(indexStatus)
                          THEN Append(before.staged, filename) ELSE before.staged,
                       unstaged |->
                          IF IsUnstagedCode(workTreeStatus)
                          THEN Append(before.unstaged, filename) ELSE before.unstaged,
                       untracked |->
                          IF IsUntrackedCode(indexStatus, workTreeStatus)
                          THEN Append(before.untracked, filename)
                          ELSE before.untracked]

\* getFileStatuses, given the outcome of the status query
getFileStatuses(output) ==
    IF ~output.ok
    THEN [staged |-> <<>>, unstaged |-> <<>>, untracked |-> <<>>,
          err |-> "failed to get git status"]
    ELSE LET scanner == Scan(output.out)
             lists   == fileStatusesAfter(scanner.lines, Len(scanner.lines))
         IN  [staged |-> lists.staged, unstaged |-> lists.unstaged,
              untracked |-> lists.untracked, err |-> scanner.err]

(***************************************************************************)
(* The diff aggregator: mapGitStatus, isBinaryFile, getFileStats,          *)
(* parseNameStatus (analyzer.go) and parseStatOutput (commits.go).         *)
(***************************************************************************)
\* a variant that compares the whole code
mapGitStatusWholeCode(gitStatus) ==
    CASE gitStatus = <<"A">> -> StatusAdded
      [] gitStatus = <<"M">> -> StatusModified
      [] gitStatus = <<"D">> -> StatusDeleted
      [] gitStatus = <<"R">> -> StatusRenamed
      [] gitStatus = <<"C">> -> StatusCopied
      [] gitStatus = <<"?">> -> StatusUntracked
      [] OTHER -> StatusModified

mapGitStatus(gitStatus) ==
    CASE gitStatus[1] = "A" -> StatusAdded
      [] gitStatus[1] = "M" -> StatusModified
      [] gitStatus[1] = "D" -> StatusDeleted
      [] gitStatus[1] = "R" -> StatusRenamed
      [] gitStatus[1] = "C" -> StatusCopied
      [] gitStatus[1] = "?" -> StatusUntracked
      [] OTHER -> StatusModified

UpperLetters == <<"A", "B", "C", "D", "E", "F", "G", "H", "I", "J", "K", "L", "M",
                  "N", "O", "P", "Q", "R", "S", "T", "U", "V", "W", "X", "Y", "Z">>

LowerLetters == <<"a", "b", "c", "d", "e", "f", "g", "h", "i", "j", "k", "l", "m",
                  "n", "o", "p", "q", "r", "s", "t", "u", "v", "w", "x", "y", "z">>

\* strings.ToLower
ToLower(s) ==
    [i \in 1..Len(s) |->
        IF \E k \in 1..Len(UpperLetters) : UpperLetters[k] = s[i]
        THEN LowerLetters[CHOOSE k \in 1..Len(UpperLetters) : UpperLetters[k] = s[i]]
        ELSE s[i]]

binaryExtensions ==
    {<<".", "j", "p", "g">>, <<".", "j", "p", "e", "g">>, <<".", "p", "n", "g">>,
     <<".", "g", "i", "f">>, <<".", "p", "d", "f">>, <<".", "z", "i", "p">>,
     <<".", "t", "a", "r">>, <<".", "g", "z">>, <<".", "e", "x", "e">>,
     <<".", "d", "l", "l">>, <<".", "s", "o">>, <<".", "d", "y", "l", "i", "b">>,
     <<".", "b", "i", "n">>, <<".", "d", "a", "t">>, <<".", "d", "b">>}

isBinaryFile(filepath) ==
    \E ext \in binaryExtensions : HasSuffix(ToLower(filepath), ext)

\* a variant of the loop that compares the path as it is written
binaryAfterCaseSensitive(order, i, filepath) ==
    \E k \in i..Len(order) : HasSuffix(filepath, order[k])

\* the loop of isBinaryFile from the i-th extension of the order range
\* visits the table in
RECURSIVE binaryAfter(_, _, _)
binaryAfter(order, i, filepath) ==
    IF i > Len(order) THEN FALSE
    ELSE IF HasSuffix(ToLower(filepath), order[i]) THEN TRUE
    ELSE binaryAfter(order, i + 1, filepath)

\* getFileStats, given the outcome of the numstat query for the path:
\* [additions, deletions, err]
getFileStats(output) ==
    LET line  == TrimSpace(output.out)
        parts == Fields(line)
        additions == ParseInt(parts[1])
        deletions == ParseInt(parts[2])
    IN  IF ~output.ok
        THEN [additions |-> 0, deletions |-> 0, err |-> "numstat failed"]
        ELSE IF line = <<>> \/ Len(parts) < 2
        THEN [additions |-> 0, deletions |-> 0, err |-> Nil]
        ELSE IF ~additions.ok \/ ~deletions.ok
        THEN [additions |-> 0, deletions |-> 0, err |-> "failed to parse stats"]
        ELSE [additions |-> additions.value, deletions |-> deletions.value,
              err |-> Nil]

\* a variant that takes the last field of the line for the path
nameStatusEntryLastField(parts, numstat) ==
    LET stats == getFileStats(numstat[parts[Len(parts)]])
    IN  FileChange(parts[Len(parts)], mapGitStatus(parts[1]),
                   IF stats.err # Nil THEN 0 ELSE stats.additions,
                   IF stats.err # Nil THEN 0 ELSE stats.deletions,
                   isBinaryFile(parts[Len(parts)]))

\* the FileChange parseNameStatus appends for a line with two fields or more
nameStatusEntry(parts, numstat) ==
    LET stats == getFileStats(numstat[parts[2]])
    IN  FileChange(parts[2], mapGitStatus(parts[1]),
                   IF stats.err # Nil THEN 0 ELSE stats.additions,
                   IF stats.err # Nil THEN 0 ELSE stats.deletions,
                   isBinaryFile(parts[2]))

\* a variant that drops the line when getFileStats fails
RECURSIVE nameStatusAfterDropping(_, _, _)
nameStatusAfterDropping(lines, n, numstat) ==
    IF n = 0 THEN <<>>
    ELSE LET before == nameStatusAfterDropping(lines, n - 1, numstat)
             line   == TrimSpace(lines[n])
             parts  == Fields(line)
         IN  IF line = <<>> \/ Len(parts) < 2 THEN before
             ELSE IF getFileStats(numstat[parts[2]]).err # Nil THEN before
             ELSE Append(before, nameStatusEntry(parts, numstat))

\* changes after the loop over lines[1..n]
RECURSIVE nameStatusAfter(_, _, _)
nameStatusAfter(lines, n, numstat) ==
    IF n = 0 THEN <<>>
    ELSE LET before == nameStatusAfter(lines, n - 1, numstat)
             line   == TrimSpace(lines[n])
             parts  == Fields(line)
         IN  IF line = <<>> \/ Len(parts) < 2 THEN before
             ELSE Append(before, nameStatusEntry(parts, numstat))

\* parseNameStatus: [changes, err]; numstat gives, for a path, the outcome of
\* the numstat query getFileStats runs for it
parseNameStatus(output, numstat) ==
    LET scanner == Scan(output)
    IN  [changes |-> nameStatusAfter(scanner.lines, Len(scanner.lines), numstat),
         err     |-> scanner.err]

DiffSummary(files, lines, additions, deletions, fileChanges) ==
    [TotalFiles |-> files, TotalLines |-> lines, Additions |-> additions,
     Deletions |-> deletions, FileChanges |-> fileChanges,
     CommitHistory |-> NilSlice]

\* a variant that takes the number printed before the bar for the additions
statEntryByCount(parts) ==
    LET filename == TrimSpace(parts[1])
        fields   == Fields(parts[2])
        count    == IF fields = <<>> THEN 0 ELSE ParseInt(fields[1]).value
    IN  FileChange(filename, StatusModified, count, 0, FALSE)

\* the FileChange parseStatOutput appends for a line "filename | stats"
statEntry(parts) ==
    LET filename  == TrimSpace(parts[1])
        statsStr  == TrimSpace(parts[2])
        additions == Count(statsStr, "+")
        deletions == Count(statsStr, "-")
        status    == IF additions > 0 /\ deletions = 0 THEN StatusAdded
                     ELSE IF additions = 0 /\ deletions > 0 THEN StatusDeleted
                     ELSE StatusModified
    IN  FileChange(filename, status, additions, deletions, FALSE)

\* summary after the loop over lines[1..n]
RECURSIVE statSummaryAfter(_, _)
statSummaryAfter(lines, n) ==
    IF n = 0 THEN DiffSummary(0, 0, 0, 0, <<>>)
    ELSE LET before == statSummaryAfter(lines, n - 1)
             line   == TrimSpace(lines[n])
             parts  == Split(line, "|")
             entry  == statEntry(parts)
         IN  IF line # <<>> /\ Contains(line, "|") /\ Len(parts) >= 2
             THEN DiffSummary(before.TotalFiles + 1,
                              before.TotalLines + entry.Additions + entry.Deletions,
                              before.Additions + entry.Additions,
                              before.Deletions + entry.Deletions,
                              Append(before.FileChanges, entry))
             ELSE before

\* parseStatOutput: the summary (its error is always nil); FileChanges
\* starts as an empty slice that is not nil
parseStatOutput(output) ==
    LET lines == Split(output, "\n")
        final == statSummaryAfter(lines, Len(lines))
    IN  [final EXCEPT !.FileChanges = [isNil |-> FALSE, items |-> @]]

(***************************************************************************)
(* GetDiffSummary and GetBranchDiff (analyzer.go).                         *)
(***************************************************************************)
ErrDiffSummary == "failed to get diff summary"
ErrBranchDiff == "failed to get branch diff"
ErrFileChanges == "failed to get file changes"
ErrBranchFileChanges == "failed to get branch file changes"

\* what an operation returns: (*DiffSummary, error)
Summary(summary, ran) ==
    [isNil |-> FALSE, summary |-> summary, err |-> Nil, queries |-> ran]

NoSummary(err, ran) ==
    [isNil |-> TRUE, summary |-> DiffSummary(0, 0, 0, 0, NilSlice), err |-> err,
     queries |-> ran]

\* getFileChangesForStatus, given the outcome of its name-status query
getFileChangesForStatus(output, stats) ==
    IF ~output.ok THEN [changes |-> <<>>, err |-> ErrFileChanges]
    ELSE parseNameStatus(output.out, stats)

\* a variant that supplies the unstaged listing first
detailedChangesUnstagedFirst(git) ==
    LET stagedChanges   == getFileChangesForStatus(git.nameStatus["staged"], git.numstat)
        unstagedChanges == getFileChangesForStatus(git.nameStatus["unstaged"], git.numstat)
    IN  (IF unstagedChanges.err = Nil THEN unstagedChanges.changes ELSE <<>>)
        \o (IF stagedChanges.err = Nil THEN stagedChanges.changes ELSE <<>>)

\* the changes getDetailedFileChanges hands to the merge: those of the
\* staged listing, then those of the unstaged listing
detailedChanges(git) ==
    LET stagedChanges   == getFileChangesForStatus(git.nameStatus["staged"], git.numstat)
        unstagedChanges == getFileChangesForStatus(git.nameStatus["unstaged"], git.numstat)
    IN  (IF stagedChanges.err = Nil THEN stagedChanges.changes ELSE <<>>)
        \o (IF unstagedChanges.err = Nil THEN unstagedChanges.changes ELSE <<>>)

\* getDetailedFileChanges: the results it may return, [changes, err]
getDetailedFileChanges(git) ==
    {[changes |-> m, err |-> Nil] : m \in mergeFileChanges(detailedChanges(git))}

\* GetDiffSummary: the results it may return
GetDiffSummary(git) ==
    LET ran     == <<Query("diff --stat", HeadRef, 0),
                     Query("diff --name-status", <<"", "staged">>, 0),
                     Query("diff --name-status", <<"", "unstaged">>, 0)>>
        summary == parseStatOutput(git.stat[HeadRef].out)
    IN  IF ~git.stat[HeadRef].ok
        THEN {NoSummary(ErrDiffSummary, <<ran[1]>>)}
        ELSE {IF fileChanges.err # Nil THEN Summary(summary, ran)
              ELSE Summary([summary EXCEPT
                               !.FileChanges = Appended(fileChanges.changes)], ran) :
                fileChanges \in getDetailedFileChanges(git)}

\* getBranchFileChanges: [changes, err, queries]
getBranchFileChanges(b, git) ==
    LET remote == Query("diff --name-status", RemoteRef(b), 0)
        local  == Query("diff --name-status", LocalRef(b), 0)
        output == IF git.nameStatus[RemoteRef(b)].ok THEN git.nameStatus[RemoteRef(b)]
                  ELSE git.nameStatus[LocalRef(b)]
        ran    == IF git.nameStatus[RemoteRef(b)].ok THEN <<remote>>
                  ELSE <<remote, local>>
    IN  IF ~output.ok
        THEN [changes |-> <<>>, err |-> ErrBranchFileChanges, queries |-> ran]
        ELSE [queries |-> ran] @@ parseNameStatus(output.out, git.numstat)

\* a variant that keeps the entries of the stat output
branchSummaryOfStat(b, output, ran, git) ==
    LET summary     == parseStatOutput(output)
        fileChanges == getBranchFileChanges(b, git)
    IN  Summary(summary, ran \o fileChanges.queries)

\* the summary GetBranchDiff builds from the stat output it obtained
branchSummary(b, output, ran, git) ==
    LET summary     == parseStatOutput(output)
        fileChanges == getBranchFileChanges(b, git)
    IN  IF fileChanges.err # Nil THEN Summary(summary, ran \o fileChanges.queries)
        ELSE Summary([summary EXCEPT !.FileChanges = Appended(fileChanges.changes)],
                     ran \o fileChanges.queries)

\* a variant that returns an empty summary when both stat queries fail
branchDiffAlways(base, git) ==
    LET b == IF base = "" THEN DefaultBase ELSE base
        remote == Query("diff --stat", RemoteRef(b), 0)
        local  == Query("diff --stat", LocalRef(b), 0)
    IN  IF git.stat[RemoteRef(b)].ok
        THEN branchSummary(b, git.stat[RemoteRef(b)].out, <<remote>>, git)
        ELSE IF git.stat[LocalRef(b)].ok
        THEN branchSummary(b, git.stat[LocalRef(b)].out, <<remote, local>>, git)
        ELSE Summary(parseStatOutput(<<>>), <<remote, local>>)

\* GetBranchDiff(baseBranch), given what git answers: the stat output of
\* origin/<base>...HEAD, or else that of <base>...HEAD, is parsed
GetBranchDiff(base, git) ==
    LET b == IF base = "" THEN DefaultBase ELSE base
        remote == Query("diff --stat", RemoteRef(b), 0)
        local  == Query("diff --stat", LocalRef(b), 0)
        output == IF git.stat[RemoteRef(b)].ok THEN git.stat[RemoteRef(b)]
                  ELSE git.stat[LocalRef(b)]
        ran    == IF git.stat[RemoteRef(b)].ok THEN <<remote>> ELSE <<remote, local>>
    IN  IF ~output.ok THEN NoSummary(ErrBranchDiff, ran)
        ELSE branchSummary(b, output.out, ran, git)

(***************************************************************************)
(* IsGitRepository, GetStatus and its helpers (analyzer.go).               *)
(***************************************************************************)
\* what os.Stat finds at <repoPath>/.git
EntryAbsent == "absent"
EntryDir    == "dir"
EntryFile   == "file"

\* os.Stat(gitDir): err == nil, and stat.IsDir()
StatOK(entry) == entry # EntryAbsent
StatIsDir(entry) == entry = EntryDir

IsGitRepository(entry) ==
    IF StatOK(entry) THEN StatIsDir(entry)
    ELSE IF StatOK(entry) THEN TRUE
    ELSE FALSE

ErrCurrentBranch == "failed to get current branch"
ErrRemoteURL == "failed to get remote URL"
ErrFileStatuses == "failed to get file statuses"

\* a variant of getCurrentBranch that reports no error
getCurrentBranchSilent(output) ==
    IF ~output.ok THEN [branch |-> <<>>, err |-> Nil]
    ELSE [branch |-> TrimSpace(output.out), err |-> Nil]

\* getCurrentBranch, given the outcome of git branch --show-current
getCurrentBranch(output) ==
    IF ~output.ok THEN [branch |-> <<>>, err |-> ErrCurrentBranch]
    ELSE [branch |-> TrimSpace(output.out), err |-> Nil]

\* getRemoteURL, given the outcome of git remote get-url origin
getRemoteURL(output) ==
    IF ~output.ok THEN [url |-> <<>>, err |-> ErrRemoteURL]
    ELSE [url |-> TrimSpace(output.out), err |-> Nil]

\* the public GetRemoteURL: a string and nothing else
GetRemoteURL(output) == getRemoteURL(output).url

Main    == <<"m", "a", "i", "n">>
Master  == <<"m", "a", "s", "t", "e", "r">>
Develop == <<"d", "e", "v", "e", "l", "o", "p">>

commonBranches == <<Main, Master, Develop>>

\* refs/remotes/origin/
RemotesOrigin == <<"r", "e", "f", "s", "/", "r", "e", "m", "o", "t", "e", "s", "/",
                   "o", "r", "i", "g", "i", "n", "/">>

OriginRef(name) == <<"origin", name>>
NoRef == <<"", <<>>>>

\* the loop over commonBranches from the i-th on: [branch, queries]
RECURSIVE firstCommonBranch(_, _)
firstCommonBranch(git, i) ==
    IF i > Len(commonBranches) THEN [branch |-> Main, queries |-> <<>>]
    ELSE IF git.showRef[commonBranches[i]]
    THEN [branch |-> commonBranches[i],
          queries |-> <<Query("show-ref", OriginRef(commonBranches[i]), 0)>>]
    ELSE LET rest == firstCommonBranch(git, i + 1)
         IN  [branch |-> rest.branch,
              queries |-> <<Query("show-ref", OriginRef(commonBranches[i]), 0)>>
                          \o rest.queries]

\* getBaseBranch: [branch, err, queries]
getBaseBranch(git) ==
    LET asked  == <<Query("symbolic-ref", OriginRef(<<"H", "E", "A", "D">>), 0)>>
        branch == TrimSpace(git.symbolicRef.out)
        parts  == Split(branch, "/")
        common == firstCommonBranch(git, 1)
    IN  IF git.symbolicRef.ok /\ Len(parts) > 0
        THEN [branch |-> parts[Len(parts)], err |-> Nil, queries |-> asked]
        ELSE [branch |-> common.branch, err |-> Nil,
              queries |-> asked \o common.queries]

\* strconv.Atoi of the trimmed output of git rev-list --count, 0 kept when
\* the query or the conversion fails
countOf(output) ==
    LET count == ParseInt(TrimSpace(output.out))
    IN  IF output.ok /\ count.ok THEN count.value ELSE 0

\* getCommitCounts(baseBranch): [ahead, behind, err, queries]
getCommitCounts(base, git) ==
    [ahead   |-> countOf(git.ahead[base]),
     behind  |-> countOf(git.behind[base]),
     err     |-> Nil,
     queries |-> <<Query("rev-list ahead", OriginRef(base), 0),
                   Query("rev-list behind", OriginRef(base), 0)>>]

GitStatus(isRepo, branch, base, url, dirty, staged, unstaged, untracked, ahead, behind) ==
    [IsGitRepo |-> isRepo, CurrentBranch |-> branch, BaseBranch |-> base,
     RemoteURL |-> url, HasChanges |-> dirty, StagedFiles |-> staged,
     UnstagedFiles |-> unstaged, UntrackedFiles |-> untracked,
     CommitsAhead |-> ahead, CommitsBehind |-> behind]

NotARepo ==
    GitStatus(FALSE, <<>>, <<>>, <<>>, FALSE, NilSlice, NilSlice, NilSlice, 0, 0)

\* a variant of statusError in which a failed remote-URL query fails GetStatus
statusErrorWithRemote(currentBranch, remoteURL, base, files, counts) ==
    IF currentBranch.err # Nil THEN ErrCurrentBranch
    ELSE IF remoteURL.err # Nil THEN ErrRemoteURL
    ELSE IF files.err # Nil THEN ErrFileStatuses
    ELSE Nil

\* the error GetStatus returns, given what its helpers returned: only the
\* errors of getCurrentBranch and getFileStatuses make it return early
statusError(currentBranch, remoteURL, base, files, counts) ==
    IF currentBranch.err # Nil THEN ErrCurrentBranch
    ELSE IF files.err # Nil THEN ErrFileStatuses
    ELSE Nil

\* GetStatus: [isNil, status, err, queries]
GetStatus(entry, git) ==
    LET currentBranch == getCurrentBranch(git.branch)
        remoteURL     == getRemoteURL(git.remoteURL)
        base          == getBaseBranch(git)
        files         == getFileStatuses(git.status)
        counts        == getCommitCounts(base.branch, git)
        askBranch     == <<Query("branch --show-current", NoRef, 0)>>
        askRemote     == <<Query("remote get-url", OriginRef(<<>>), 0)>>
        askStatus     == <<Query("status", NoRef, 0)>>
        untilStatus   == askBranch \o askRemote \o base.queries \o askStatus
        err           == statusError(currentBranch, remoteURL, base, files, counts)
    IN  IF ~IsGitRepository(entry)
        THEN [isNil |-> FALSE, status |-> NotARepo, err |-> Nil, queries |-> <<>>]
        ELSE IF err # Nil
        THEN [isNil |-> TRUE, status |-> NotARepo, err |-> err,
              queries |-> IF currentBranch.err # Nil THEN askBranch
                          ELSE IF err = ErrRemoteURL THEN askBranch \o askRemote
                          ELSE untilStatus]
        ELSE [isNil |-> FALSE,
              status |->
                  GitStatus(TRUE, currentBranch.branch,
                            IF base.err = Nil THEN base.branch ELSE <<>>,
                            IF remoteURL.err = Nil THEN remoteURL.url ELSE <<>>,
                            Len(files.staged) > 0 \/ Len(files.unstaged) > 0
                                \/ Len(files.untracked) > 0,
                            Appended(files.staged), Appended(files.unstaged),
                            Appended(files.untracked),
                            IF counts.err = Nil THEN counts.ahead ELSE 0,
                            IF counts.err = Nil THEN counts.behind ELSE 0),
              err |-> Nil,
              queries |-> untilStatus \o counts.queries]

(***************************************************************************)
(* Inputs of the model: paths and FileChange values.                       *)
(***************************************************************************)
PathA  == <<"a">>
PathDb == <<"b", ".", "d", "b">>

MergeInputs ==
    {FileChange(PathA, s, c[1], c[2], b) :
        s \in {StatusAdded, StatusModified},
        c \in {<<0, 0>>, <<1, 0>>, <<0, 2>>},
        b \in BOOLEAN}
    \cup {FileChange(PathDb, StatusDeleted, 1, 1, FALSE),
          FileChange(PathDb, StatusModified, 0, 3, TRUE)}

PathC == <<"c">>

\* the characters of a status code that occur in the listings
StatusChars == {" ", "?", "M"}

\* status lines: code, separator, path
StatusEntryLines ==
    {<<x, y, " ">> \o path : x \in StatusChars, y \in StatusChars,
                            path \in {PathA, PathDb, PathC}}

\* lines too short to be entries, an entry with an empty path, and a line
\* too long for the scanner
StatusOtherLines == {<<>>, <<"M", "M">>, <<LongRun>>}

StatusLines == StatusEntryLines \cup StatusOtherLines

\* git status names every path on one line only
StatusListings ==
    {ls \in SeqsUpTo(StatusLines, MaxStatusLines) :
        \A i, j \in 1..Len(ls) :
            (i # j /\ ls[i] \in StatusEntryLines /\ ls[j] \in StatusEntryLines)
                => SubSeq(ls[i], 4, Len(ls[i])) # SubSeq(ls[j], 4, Len(ls[j]))}

\* lines of a log listing: headers "hash|subject|author|email|timestamp",
\* one of them with a timestamp that is no number, a line with a delimiter
\* and too few fields, file lines, a blank line, a line too long to scan
Header1   == <<"1", "|", "s", "|", "a", "|", "e", "|", "7">>
Header2   == <<"2", "|", "t", "|", "b", "|", "e", "|", "8">>
HeaderBad == <<"3", "|", "s", "|", "a", "|", "e", "|", "x">>
PipeLine  == <<"f", "|", "g">>
FileF     == <<"f">>
FileG     == <<" ", "g">>
BlankLine == <<" ">>

LogLines == {Header1, Header2, HeaderBad, PipeLine, FileF, FileG, BlankLine,
             <<LongRun>>}

LogListings == SeqsUpTo(LogLines, MaxLogLines)

SinceLines == {Header1, Header2, FileF, BlankLine}

SinceListings == SeqsUpTo(SinceLines, MaxSinceLines)

LimitArgs == {-1, 0, 1, 2}

BaseArgs == {"", "dev"}

NowValues == {98, 99}

\* lines of a name-status listing: "<code>\t<path>", and a line too long to
\* scan
NameStatusModA  == <<"M", "\t">> \o PathA
NameStatusDelA  == <<"D", "\t">> \o PathA
NameStatusAddDb == <<"A", "\t">> \o PathDb

NameStatusLines == {NameStatusModA, NameStatusDelA, NameStatusAddDb, <<LongRun>>}

NameStatusListings == SeqsUpTo(NameStatusLines, MaxNameStatusLines)

\* lines of a stat listing: "<path> | <count> <bar>"
StatLineA  == <<" ">> \o PathA \o <<" ", "|", " ", "2", " ", "+", "-">>
StatLineDb == <<" ">> \o PathDb \o <<" ", "|", " ", "1", " ", "+">>

StatLines == {StatLineA, StatLineDb}

StatListings == SeqsUpTo(StatLines, MaxStatLines)

\* what git diff --numstat -- <path> answers, per path: "<added>\t<deleted>\t
\* <path>", dashes for a binary file, nothing, or an error exit
NumstatTables ==
    {[path \in {PathA, PathDb} |->
         IF path = PathA THEN Output(<<"3", "\t", "1", "\t">> \o PathA \o <<"\n">>)
         ELSE Output(<<"-", "\t", "-", "\t">> \o PathDb \o <<"\n">>)],
     [path \in {PathA, PathDb} |->
         IF path = PathA THEN Fail
         ELSE Output(<<"0", "\t", "2", "\t">> \o PathDb \o <<"\n">>)]}

(***************************************************************************)
(* mergeFileChanges called on a slice, and then on its own result.         *)
(***************************************************************************)
InitMerge ==
    /\ changes = <<>>
    /\ merged = <<>>
    /\ remerged = <<>>

CallMerge ==
    /\ op = "idle"
    /\ \E chs \in SeqsUpTo(MergeInputs, MaxChanges) :
          \E out \in mergeFileChanges(chs) :
            /\ changes' = chs
            /\ merged' = out
            /\ remerged' = <<>>
            /\ op' = "mergeFileChanges"

CallMergeAgain ==
    /\ op = "mergeFileChanges"
    /\ \E out \in mergeFileChanges(merged) :
            /\ remerged' = out
            /\ op' = "mergeFileChangesAgain"
    /\ UNCHANGED <<changes, merged>>

\* a second call with the slice of the first call
CallMergeSame ==
    /\ op = "mergeFileChanges"
    /\ \E out \in mergeFileChanges(changes) :
            /\ remerged' = out
            /\ op' = "mergeFileChangesSame"
    /\ UNCHANGED <<changes, merged>>

\* the caller is done with the result; the Analyzer keeps nothing of it
ReturnMerge ==
    /\ op \in {"mergeFileChanges", "mergeFileChangesAgain", "mergeFileChangesSame"}
    /\ op' = "idle"
    /\ changes' = <<>>
    /\ merged' = <<>>
    /\ remerged' = <<>>

(***************************************************************************)
(* getFileStatuses called on a working copy.                               *)
(***************************************************************************)
InitStatus ==
    /\ statusListing = Output(<<>>)
    /\ statusResult = getFileStatuses(Output(<<>>))

CallGetFileStatuses ==
    /\ op = "idle"
    /\ \E listing \in {Output(ls) : ls \in StatusListings} \cup {Fail} :
          /\ statusListing' = listing
          /\ statusResult' = getFileStatuses(AsText(listing))
    /\ op' = "getFileStatuses"

ReturnStatus ==
    /\ op = "getFileStatuses"
    /\ op' = "idle"
    /\ statusListing' = Output(<<>>)
    /\ statusResult' = getFileStatuses(Output(<<>>))

(***************************************************************************)
(* GetCommitHistory and GetCommitsSinceBase called on a repository.        *)
(***************************************************************************)
InitRepo ==
    /\ baseBranch = ""
    /\ refs = {}
    /\ headOK = TRUE
    /\ queries = <<>>

InitHistory ==
    /\ limitArg = 0
    /\ logListing = [r \in {HeadRef} |-> Output(<<>>)]
    /\ now = 0
    /\ historyResult = [commits |-> NilSlice, err |-> Nil]

CallGetCommitHistory ==
    /\ op = "idle"
    /\ \E n \in LimitArgs, t \in NowValues,
          listing \in {Output(ls) : ls \in LogListings} \cup {Fail} :
          \E r \in {GetCommitHistory(n, AsText(listing), t)} :
              /\ limitArg' = n
              /\ now' = t
              /\ logListing' = [ref \in {HeadRef} |-> listing]
              /\ queries' = r.queries
              /\ historyResult' = [commits |-> r.commits, err |-> r.err]
    /\ op' = "GetCommitHistory"
    /\ UNCHANGED <<baseBranch, refs, headOK>>

\* the listings git log prints for the two ranges: nothing is printed for a
\* ref that does not resolve, nor when HEAD is no commit
SinceBaseListings(base, resolving, head) ==
    {[ref \in {RemoteRef(base), LocalRef(base)} |->
         IF ref = RemoteRef(base) THEN remote ELSE local] :
        remote \in IF RemoteRef(base) \in resolving /\ head
                   THEN SinceListings ELSE {<<>>},
        local  \in IF LocalRef(base) \in resolving /\ head
                   THEN SinceListings ELSE {<<>>}}

CallGetCommitsSinceBase ==
    /\ op = "idle"
    /\ \E base \in BaseArgs, head \in BOOLEAN, t \in NowValues :
        \E b \in {IF base = "" THEN DefaultBase ELSE base} :
        \E resolving \in SUBSET {RemoteRef(b), LocalRef(b)} :
        \E listings \in SinceBaseListings(b, resolving, head) :
        \E git \in {Git(resolving, head, listings)} :
        \E r \in {GetCommitsSinceBase(base, git, t)} :
            /\ baseBranch' = base
            /\ refs' = resolving
            /\ headOK' = head
            /\ now' = t
            /\ logListing' = LogOutcome(resolving, head, listings)
            /\ queries' = r.queries
            /\ historyResult' = [commits |-> r.commits, err |-> r.err]
    /\ op' = "GetCommitsSinceBase"
    /\ UNCHANGED limitArg

ReturnHistory ==
    /\ op \in {"GetCommitHistory", "GetCommitsSinceBase"}
    /\ op' = "idle"
    /\ baseBranch' = ""
    /\ refs' = {}
    /\ headOK' = TRUE
    /\ queries' = <<>>
    /\ limitArg' = 0
    /\ logListing' = [r \in {HeadRef} |-> Output(<<>>)]
    /\ now' = 0
    /\ historyResult' = [commits |-> NilSlice, err |-> Nil]

(***************************************************************************)
(* GetDiffSummary and GetBranchDiff called on a repository.                *)
(***************************************************************************)
InitDiff ==
    /\ statListing = [r \in {HeadRef} |-> Output(<<>>)]
    /\ nameStatusListing = [k \in {"staged", "unstaged"} |-> Output(<<>>)]
    /\ numstatTable = [path \in {PathA, PathDb} |-> Output(<<>>)]
    /\ diffResult = [isNil |-> TRUE, summary |-> DiffSummary(0, 0, 0, 0, NilSlice),
                     err |-> Nil]

\* The working copy does not change during the call: the three diff queries
\* all answer, or (outside a working copy) the first one fails already.
DiffSummaryAnswers ==
    {[stat |-> [r \in {HeadRef} |-> Output(statLines)],
      nameStatus |-> [k \in {"staged", "unstaged"} |->
                         IF k = "staged" THEN Output(staged) ELSE Output(unstaged)],
      numstat |-> table] :
        statLines \in StatListings, staged \in NameStatusListings,
        unstaged \in NameStatusListings, table \in NumstatTables}
    \cup {[stat |-> [r \in {HeadRef} |-> Fail],
           nameStatus |-> [k \in {"staged", "unstaged"} |-> Fail],
           numstat |-> [path \in {PathA, PathDb} |-> Fail]]}

\* the outputs of git for the listings of an answer
AnswerTexts(answer) ==
    [stat |-> [r \in DOMAIN answer.stat |-> AsText(answer.stat[r])],
     nameStatus |-> [k \in DOMAIN answer.nameStatus |-> AsText(answer.nameStatus[k])],
     numstat |-> answer.numstat]

CallGetDiffSummary ==
    /\ op = "idle"
    /\ \E answer \in DiffSummaryAnswers :
        \E r \in GetDiffSummary(AnswerTexts(answer)) :
            /\ statListing' = answer.stat
            /\ nameStatusListing' = answer.nameStatus
            /\ numstatTable' = answer.numstat
            /\ queries' = r.queries
            /\ diffResult' = [isNil |-> r.isNil, summary |-> r.summary, err |-> r.err]
    /\ op' = "GetDiffSummary"
    /\ UNCHANGED <<baseBranch, refs, headOK>>

\* The repository does not change during the call: a diff over
\* <ref>...HEAD answers when the ref resolves and HEAD is a commit, with the
\* stat or the name-status listing of that comparison.
BranchDiffAnswers(b, resolving, head) ==
    {[stat |-> [r \in {RemoteRef(b), LocalRef(b)} |->
                   IF r \in resolving /\ head THEN Output(statLines) ELSE Fail],
      nameStatus |-> [r \in {RemoteRef(b), LocalRef(b)} |->
                   IF r \in resolving /\ head THEN Output(changed) ELSE Fail],
      numstat |-> table] :
        statLines \in IF resolving # {} /\ head THEN StatListings ELSE {<<>>},
        changed \in IF resolving # {} /\ head THEN NameStatusListings ELSE {<<>>},
        table \in NumstatTables}

CallGetBranchDiff ==
    /\ op = "idle"
    /\ \E base \in BaseArgs, head \in BOOLEAN :
        \E b \in {IF base = "" THEN DefaultBase ELSE base} :
        \E resolving \in SUBSET {RemoteRef(b), LocalRef(b)} :
        \E answer \in BranchDiffAnswers(b, resolving, head) :
        \E r \in {GetBranchDiff(base, AnswerTexts(answer))} :
            /\ baseBranch' = base
            /\ refs' = resolving
            /\ headOK' = head
            /\ statListing' = answer.stat
            /\ nameStatusListing' = answer.nameStatus
            /\ numstatTable' = answer.numstat
            /\ queries' = r.queries
            /\ diffResult' = [isNil |-> r.isNil, summary |-> r.summary, err |-> r.err]
    /\ op' = "GetBranchDiff"

ReturnDiff ==
    /\ op \in {"GetDiffSummary", "GetBranchDiff"}
    /\ op' = "idle"
    /\ baseBranch' = ""
    /\ refs' = {}
    /\ headOK' = TRUE
    /\ queries' = <<>>
    /\ statListing' = [r \in {HeadRef} |-> Output(<<>>)]
    /\ nameStatusListing' = [k \in {"staged", "unstaged"} |-> Output(<<>>)]
    /\ numstatTable' = [path \in {PathA, PathDb} |-> Output(<<>>)]
    /\ diffResult' = [isNil |-> TRUE, summary |-> DiffSummary(0, 0, 0, 0, NilSlice),
                      err |-> Nil]

(***************************************************************************)
(* The parsers called on their own: parseNameStatus, mapGitStatus,         *)
(* parseStatOutput.                                                        *)
(***************************************************************************)
\* name-status lines: a rename with its score and two paths, a line with
\* blanks around its fields, a line with one field
NameStatusRename == <<"R", "1", "0", "0", "\t">> \o PathA \o <<"\t">> \o PathDb
NameStatusSpaced == <<" ", "D", " ", " ">> \o PathDb \o <<" ">>
NameStatusOneField == <<"M">>

ParseLines == {NameStatusModA, NameStatusAddDb, NameStatusRename, NameStatusSpaced,
               NameStatusOneField, BlankLine, <<>>, <<LongRun>>}

ParseListings == SeqsUpTo(ParseLines, MaxParseLines)

\* numstat answers: also an empty answer and an answer with one field
ParseStatsTables ==
    NumstatTables
    \cup {[path \in {PathA, PathDb} |->
             IF path = PathA THEN Output(<<" ", "\n">>) ELSE Output(<<"7", "\n">>)]}

\* status codes given to mapGitStatus
StatusCodes ==
    {<<c>> : c \in {"A", "M", "D", "R", "C", "?", "T", "U", "X"}}
    \cup {<<"R", "1", "0", "0">>, <<"C", "7", "5">>, <<"A", "D">>, <<"X", "A">>,
          <<"U", "D">>}

\* stat lines: a count that differs from the bar, a bar of '-' only, the
\* closing line of the listing
StatLineCount == <<" ">> \o PathA \o <<" ", "|", " ", "9", " ", "+", "+", "-">>
StatLineMinus == <<" ">> \o PathDb \o <<" ", "|", " ", "2", " ", "-", "-">>
StatLineTotal == <<" ", "1", " ", "f", "i", "l", "e", " ", "c", "h", "a", "n", "g",
                   "e", "d">>

StatParseLines == {StatLineA, StatLineDb, StatLineCount, StatLineMinus, StatLineTotal,
                   BlankLine}

StatParseListings == SeqsUpTo(StatParseLines, MaxStatParseLines)

\* the table of isBinaryFile in the order of its literal
extensionList ==
    <<<<".", "j", "p", "g">>, <<".", "j", "p", "e", "g">>, <<".", "p", "n", "g">>,
      <<".", "g", "i", "f">>, <<".", "p", "d", "f">>, <<".", "z", "i", "p">>,
      <<".", "t", "a", "r">>, <<".", "g", "z">>, <<".", "e", "x", "e">>,
      <<".", "d", "l", "l">>, <<".", "s", "o">>, <<".", "d", "y", "l", "i", "b">>,
      <<".", "b", "i", "n">>, <<".", "d", "a", "t">>, <<".", "d", "b">>>>

\* Orders in which range may visit the table: from any entry on, wrapping
\* round, forwards or backwards.
RangeOrders ==
    {[i \in 1..Len(extensionList) |->
         extensionList[((IF forward THEN start + i - 2
                         ELSE start - i + Len(extensionList)) % Len(extensionList)) + 1]] :
        start \in 1..Len(extensionList), forward \in BOOLEAN}

\* paths given to isBinaryFile
BinaryPaths ==
    {<<"i", "m", "a", "g", "e", ".", "P", "N", "G">>,
     <<"m", "a", "i", "n", ".", "g", "o">>,
     <<"a", ".", "t", "a", "r", ".", "g", "z">>,
     <<"a", ".", "J", "p", "e", "G">>,
     <<"a", ".", "j", "p", "g">>,
     <<"b", ".", "D", "B">>,
     <<"b", ".", "d", "b", ".", "t", "x", "t">>,
     <<"l", "i", "b", ".", "s", "o", ".", "1">>,
     <<".", "s", "o">>,
     <<"d", "b">>,
     <<"d", "i", "r", ".", "z", "i", "p", "/", "f">>,
     <<>>}

InitParse ==
    /\ parseArg = <<>>
    /\ parseStats = [path \in {PathA, PathDb} |-> Output(<<>>)]
    /\ parseOut = Nil
    /\ rangeOrder = <<>>

CallParseNameStatus ==
    /\ op = "idle"
    /\ \E listing \in ParseListings, table \in ParseStatsTables :
          /\ parseArg' = listing
          /\ parseStats' = table
          /\ parseOut' = parseNameStatus(JoinLines(listing), table)
    /\ op' = "parseNameStatus"
    /\ UNCHANGED rangeOrder

CallMapGitStatus ==
    /\ op = "idle"
    /\ \E code \in StatusCodes :
          /\ parseArg' = code
          /\ parseOut' = mapGitStatus(code)
    /\ op' = "mapGitStatus"
    /\ UNCHANGED <<parseStats, rangeOrder>>

CallParseStatOutput ==
    /\ op = "idle"
    /\ \E listing \in StatParseListings :
          /\ parseArg' = listing
          /\ parseOut' = parseStatOutput(JoinLines(listing))
    /\ op' = "parseStatOutput"
    /\ UNCHANGED <<parseStats, rangeOrder>>

CallIsBinaryFile ==
    /\ op = "idle"
    /\ \E filepath \in BinaryPaths, order \in RangeOrders :
          /\ parseArg' = filepath
          /\ rangeOrder' = order
          /\ parseOut' = binaryAfter(order, 1, filepath)
    /\ op' = "isBinaryFile"
    /\ UNCHANGED parseStats

ReturnParse ==
    /\ op \in {"parseNameStatus", "mapGitStatus", "parseStatOutput", "isBinaryFile"}
    /\ op' = "idle"
    /\ parseArg' = <<>>
    /\ parseStats' = [path \in {PathA, PathDb} |-> Output(<<>>)]
    /\ parseOut' = Nil
    /\ rangeOrder' = <<>>

(***************************************************************************)
(* IsGitRepository, GetRemoteURL, getBaseBranch and GetStatus called on a  *)
(* working copy.                                                           *)
(***************************************************************************)
Entries == {EntryAbsent, EntryDir, EntryFile}

\* the URL of origin
OriginURLs == {Fail, Output(<<<<"u">>>>)}

\* branches refs/remotes/origin/HEAD may point to
Trunk    == <<"t">>
FeatureX == <<"f", "/", "x">>

OriginHeads == {Fail} \cup {Output(<<RemotesOrigin \o b>>) : b \in {Main, Trunk, FeatureX}}

\* the names a base branch may have
BaseNames == {Main, Master, Develop, Trunk, FeatureX, <<"x">>}

BranchOutputs == {Output(<<<<"d", "e", "v">>>>), Output(<<<<>>>>)}

RepoStatusListings ==
    {Output(<<>>), Output(<<<<"M", "M", " ">> \o PathA>>), Output(<<<<LongRun>>>>)}

\* What git answers at repoPath, in a repository that does not change
\* during the call: nothing where git does not work; otherwise the current
\* branch, the status listing if the index is readable, the URL of origin if
\* there is one, the
\* target of origin/HEAD if it is set, show-ref for the remote branches that
\* exist, and the counts of rev-list for a base that exists on the remote.
RepoAnswers(works, index, url, head, remotes, branch, status) ==
    [branch      |-> IF works THEN AsText(branch) ELSE Fail,
     remoteURL   |-> IF works /\ url.ok THEN AsText(url) ELSE Fail,
     symbolicRef |-> IF works /\ head.ok THEN AsText(head) ELSE Fail,
     showRef     |-> [b \in BaseNames |-> works /\ b \in remotes],
     status      |-> IF works /\ index THEN AsText(status) ELSE Fail,
     ahead       |-> [b \in BaseNames \cup {<<>>} |->
                         IF works /\ b \in remotes THEN Output(<<"2", "\n">>) ELSE Fail],
     behind      |-> [b \in BaseNames \cup {<<>>} |->
                         IF works /\ b \in remotes THEN Output(<<"1", "\n">>) ELSE Fail]]

InitWorktree ==
    /\ gitEntry = EntryDir
    /\ gitWorks = TRUE
    /\ indexOK = TRUE
    /\ originURL = Fail
    /\ originHead = Fail
    /\ remoteBranches = {}
    /\ branchOutput = Output(<<<<>>>>)
    /\ statusOutput = Output(<<>>)
    /\ repoResult = Nil

CallIsGitRepository ==
    /\ op = "idle"
    /\ \E entry \in Entries :
          /\ gitEntry' = entry
          /\ repoResult' = IsGitRepository(entry)
    /\ op' = "IsGitRepository"
    /\ UNCHANGED <<gitWorks, indexOK, originURL, originHead, remoteBranches,
                   branchOutput, statusOutput, repoVars>>

CallGetRemoteURL ==
    /\ op = "idle"
    /\ \E works \in BOOLEAN, url \in OriginURLs :
        \E git \in {RepoAnswers(works, TRUE, url, Fail, {}, Output(<<<<>>>>), Output(<<>>))} :
          /\ gitWorks' = works
          /\ originURL' = url
          /\ repoResult' = GetRemoteURL(git.remoteURL)
          /\ queries' = <<Query("remote get-url", OriginRef(<<>>), 0)>>
    /\ op' = "GetRemoteURL"
    /\ UNCHANGED <<gitEntry, indexOK, originHead, remoteBranches, branchOutput,
                   statusOutput, baseBranch, refs, headOK>>

\* the remote branches that exist: any of the common ones, and the one
\* origin/HEAD points to
RemoteBranchSets(head) ==
    {common \cup (IF head.ok
                  THEN {SubSeq(head.out[1], Len(RemotesOrigin) + 1, Len(head.out[1]))}
                  ELSE {}) : common \in SUBSET {Main, Master, Develop}}

CallGetBaseBranch ==
    /\ op = "idle"
    /\ \E works \in BOOLEAN, head \in OriginHeads :
        \E remotes \in RemoteBranchSets(head) :
        \E git \in {RepoAnswers(works, TRUE, Fail, head, remotes, Output(<<<<>>>>), Output(<<>>))} :
        \E r \in {getBaseBranch(git)} :
          /\ gitWorks' = works
          /\ originHead' = head
          /\ remoteBranches' = remotes
          /\ repoResult' = [branch |-> r.branch, err |-> r.err]
          /\ queries' = r.queries
    /\ op' = "getBaseBranch"
    /\ UNCHANGED <<gitEntry, indexOK, originURL, branchOutput, statusOutput,
                   baseBranch, refs, headOK>>

CallGetStatus ==
    /\ op = "idle"
    /\ \E entry \in Entries, works \in BOOLEAN, index \in BOOLEAN,
          url \in OriginURLs, head \in OriginHeads, branch \in BranchOutputs,
          status \in RepoStatusListings :
        \E remotes \in RemoteBranchSets(head) :
        \E git \in {RepoAnswers(works, index, url, head, remotes, branch, status)} :
        \E r \in {GetStatus(entry, git)} :
          /\ gitEntry' = entry
          /\ gitWorks' = works
          /\ indexOK' = index
          /\ originURL' = url
          /\ originHead' = head
          /\ remoteBranches' = remotes
          /\ branchOutput' = branch
          /\ statusOutput' = status
          /\ repoResult' = [isNil |-> r.isNil, status |-> r.status, err |-> r.err]
          /\ queries' = r.queries
    /\ op' = "GetStatus"
    /\ UNCHANGED <<baseBranch, refs, headOK>>

ReturnWorktree ==
    /\ op \in {"IsGitRepository", "GetRemoteURL", "getBaseBranch", "GetStatus"}
    /\ op' = "idle"
    /\ gitEntry' = EntryDir
    /\ gitWorks' = TRUE
    /\ indexOK' = TRUE
    /\ originURL' = Fail
    /\ originHead' = Fail
    /\ remoteBranches' = {}
    /\ branchOutput' = Output(<<<<>>>>)
    /\ statusOutput' = Output(<<>>)
    /\ repoResult' = Nil
    /\ queries' = <<>>
    /\ UNCHANGED <<baseBranch, refs, headOK>>


(***************************************************************************)
(* Concurrent calls on one Analyzer.  A call is a sequence of steps, one   *)
(* for os.Stat and one for each git query; every step reads a.repoPath     *)
(* and the repository found there, everything else is local to the call.   *)
(***************************************************************************)
Goroutines == {1, 2}

\* the paths an Analyzer is made for: a clone, and a directory that is no
\* repository
ClonePath == "/clone"
PlainPath == "/plain"

RepoPaths == {ClonePath, PlainPath}

\* The repositories: the clone is on branch dev, has a remote without
\* origin/HEAD, the remote branch master, the local branch main, both refs
\* of dev, and changes; in the plain directory every query fails.
RepositoryAt(path) ==
    [entry    |-> IF path = ClonePath THEN EntryDir ELSE EntryAbsent,
     works    |-> path = ClonePath,
     url      |-> IF path = ClonePath THEN Output(<<<<"u">>>>) ELSE Fail,
     remotes  |-> IF path = ClonePath THEN {Master} ELSE {},
     branch   |-> Output(<<<<"d", "e", "v">>>>),
     status   |-> Output(<<<<"M", "M", " ">> \o PathA>>),
     resolving |-> IF path = ClonePath
                   THEN {LocalRef("main"), RemoteRef("dev"), LocalRef("dev")} ELSE {},
     log      |-> IF path = ClonePath THEN Output(<<Header1, FileF, Header2>>) ELSE Fail,
     since    |-> [r \in {RemoteRef("main"), LocalRef("main"),
                          RemoteRef("dev"), LocalRef("dev")} |->
                      IF path # ClonePath \/ r = RemoteRef("main") THEN <<>>
                      ELSE IF r = LocalRef("main") THEN <<Header1, FileF>>
                      ELSE IF r = RemoteRef("dev") THEN <<Header2>>
                      ELSE <<Header1, Header2>>],
     stat     |-> <<StatLineA>>,
     changed  |-> <<NameStatusModA, NameStatusAddDb>>,
     numstat  |-> [p \in {PathA, PathDb} |->
                      IF path # ClonePath THEN Fail
                      ELSE IF p = PathA
                      THEN Output(<<"3", "\t", "1", "\t">> \o PathA \o <<"\n">>)
                      ELSE Output(<<"-", "\t", "-", "\t">> \o PathDb \o <<"\n">>)]]

\* the operations called concurrently, with their arguments
ConcurrentCalls ==
    {[name |-> "GetStatus", base |-> "", limit |-> 0]}
    \cup {[name |-> "GetCommitHistory", base |-> "", limit |-> n] : n \in {0, 1}}
    \cup {[name |-> n, base |-> b, limit |-> 0] :
            n \in {"GetCommitsSinceBase", "GetBranchDiff"}, b \in BaseArgs}

\* the time of every call
CallTime == 99

\* what git answers at the path to the queries of GetStatus
StatusAnswersAt(path) ==
    RepoAnswers(RepositoryAt(path).works, TRUE, RepositoryAt(path).url, Fail,
                RepositoryAt(path).remotes, RepositoryAt(path).branch,
                RepositoryAt(path).status)

\* ... to the queries of GetCommitsSinceBase about branch b
SinceAnswersAt(path, b) ==
    Git(RepositoryAt(path).resolving \cap {RemoteRef(b), LocalRef(b)}, TRUE,
        [ref \in {RemoteRef(b), LocalRef(b)} |-> RepositoryAt(path).since[ref]])

\* ... to the queries of GetBranchDiff about branch b
DiffAnswersAt(path, b) ==
    AnswerTexts(
        [stat |-> [ref \in {RemoteRef(b), LocalRef(b)} |->
                      IF ref \in RepositoryAt(path).resolving
                      THEN Output(RepositoryAt(path).stat) ELSE Fail],
         nameStatus |-> [ref \in {RemoteRef(b), LocalRef(b)} |->
                      IF ref \in RepositoryAt(path).resolving
                      THEN Output(RepositoryAt(path).changed) ELSE Fail],
         numstat |-> RepositoryAt(path).numstat])

\* the runs of the call with a.repoPath = path: what it returns, the
\* queries it runs, and the number of its steps
RunAlone(path, call) ==
    CASE call.name = "GetStatus" ->
           {[value   |-> [isNil |-> r.isNil, status |-> r.status, err |-> r.err],
             queries |-> r.queries,
             steps   |-> 1 + Len(r.queries)] :
              r \in {GetStatus(RepositoryAt(path).entry, git) :
                        git \in {StatusAnswersAt(path)}}}
      [] call.name = "GetCommitHistory" ->
           {[value   |-> [commits |-> r.commits, err |-> r.err],
             queries |-> r.queries,
             steps   |-> Len(r.queries)] :
              r \in {GetCommitHistory(call.limit, output, CallTime) :
                        output \in {AsText(RepositoryAt(path).log)}}}
      [] call.name = "GetCommitsSinceBase" ->
           {[value   |-> [commits |-> r.commits, err |-> r.err],
             queries |-> r.queries,
             steps   |-> Len(r.queries)] :
              r \in {GetCommitsSinceBase(call.base, git, CallTime) :
                        git \in {SinceAnswersAt(path, IF call.base = "" THEN DefaultBase
                                                     ELSE call.base)}}}
      [] call.name = "GetBranchDiff" ->
           {[value   |-> [isNil |-> r.isNil, summary |-> r.summary, err |-> r.err],
             queries |-> r.queries,
             steps   |-> Len(r.queries)] :
              r \in {GetBranchDiff(call.base, git) :
                        git \in {DiffAnswersAt(path, IF call.base = "" THEN DefaultBase
                                                    ELSE call.base)}}}

\* a variant in which a step of GetBranchDiff leaves another path in the field
repoPathAfterStepWriting(path, call) ==
    IF call.name = "GetBranchDiff" THEN PlainPath ELSE path

\* the repoPath field after a step of a call: no method assigns it
repoPathAfterStep(path, call) == path

NoCall == [name |-> "none", base |-> "", limit |-> 0]

Idle == [call |-> NoCall, pc |-> "idle", read |-> <<>>, result |-> Nil]

InitAnalyzer ==
    /\ repoPath = ClonePath
    /\ calls = [g \in Goroutines |-> Idle]

\* NewAnalyzer(path), before any goroutine uses the Analyzer
NewAnalyzer ==
    /\ op = "idle"
    /\ \A g \in Goroutines : calls[g] = Idle
    /\ \E path \in RepoPaths : repoPath' = path
    /\ calls' = calls
    /\ op' = "NewAnalyzer"

\* a goroutine calls one of the operations
BeginCall(g) ==
    /\ op # "idle"
    /\ calls[g].pc = "idle"
    /\ \E call \in ConcurrentCalls :
          calls' = [calls EXCEPT ![g] = [call |-> call, pc |-> "running",
                                         read |-> <<>>, result |-> Nil]]
    /\ UNCHANGED <<op, repoPath>>

\* the next os.Stat or git query of the call, at the path the field holds
\* now; after its last step the call returns what its answers amount to,
\* torn if they come from different paths
StepCall(g) ==
    /\ calls[g].pc = "running"
    /\ \E read \in {Append(calls[g].read, repoPath)} :
        \E run \in RunAlone(read[1], calls[g].call) :
          IF Len(read) < run.steps
          THEN calls' = [calls EXCEPT ![g].read = read]
          ELSE calls' = [calls EXCEPT
                  ![g].read = read,
                  ![g].pc = "done",
                  ![g].result =
                      [torn  |-> \E i \in 1..Len(read) : read[i] # read[1],
                       value |-> run.value]]
    /\ repoPath' = repoPathAfterStep(repoPath, calls[g].call)
    /\ UNCHANGED op

\* the caller takes the result
EndCall(g) ==
    /\ calls[g].pc = "done"
    /\ calls' = [calls EXCEPT ![g] = Idle]
    /\ UNCHANGED <<op, repoPath>>

\* the Analyzer is dropped
DropAnalyzer ==
    /\ op = "NewAnalyzer"
    /\ \A g \in Goroutines : calls[g] = Idle
    /\ op' = "idle"
    /\ repoPath' = ClonePath
    /\ calls' = calls


(***************************************************************************)
(* The ship command: runShip and the commands it runs.                     *)
(***************************************************************************)
\* the mutating commands of the workflow, in the order of the statements
\* that run them: git checkout -b, git add ., git commit, git push, and the
\* pull request made by runCreate
ShipSteps == <<"branch", "stage", "commit", "push", "pr">>

\* what the repository answers to runShip's opening checks
ShipRepos == {"ok", "noAnalyzer", "notRepo", "statusErr"}

ShipBranches == {Main, Master, FeatureX}

\* the fields of GitStatus that runShip reads (the file lists by length)
ShipStatuses ==
    [ CurrentBranch  : ShipBranches,
      UnstagedFiles  : 0 .. 1,
      UntrackedFiles : 0 .. 1,
      StagedFiles    : 0 .. 1,
      CommitsAhead   : 0 .. 1 ]

ShipMessages == {"", "fix"}

ShipInputs ==
    [ message : ShipMessages,
      noPush  : BOOLEAN,
      noPR    : BOOLEAN,
      dryRun  : BOOLEAN,
      repo    : ShipRepos,
      status  : ShipStatuses ]

NoShipInput ==
    [ message |-> "", noPush |-> FALSE, noPR |-> FALSE, dryRun |-> FALSE,
      repo |-> "ok",
      status |-> [ CurrentBranch |-> FeatureX, UnstagedFiles |-> 0,
                   UntrackedFiles |-> 0, StagedFiles |-> 0, CommitsAhead |-> 0 ] ]

NoPlan == [NeedsBranch |-> FALSE, CommitMessage |-> ""]

hasFiles(status) ==
    status.UnstagedFiles > 0 \/ status.UntrackedFiles > 0 \/ status.StagedFiles > 0

isOnDefault(status) ==
    status.CurrentBranch = Main \/ status.CurrentBranch = Master

\* how the plan generation can go: the configuration or the client or the
\* generation fails, the response does not parse, or it parses
PlanOutcomes == {"error", "unparsed", "parsed"}

\* commit messages a parsed response can carry
PlanMessages == {"", "feat: change"}

generateComprehensiveWorkflowPlan(status, customMessage, outcome, aiMessage) ==
    IF customMessage # "" /\ status.CurrentBranch # Main /\ status.CurrentBranch # Master
    THEN [ok |-> TRUE, plan |-> [NeedsBranch |-> FALSE, CommitMessage |-> customMessage]]
    ELSE IF outcome = "error"
    THEN [ok |-> FALSE, plan |-> NoPlan]
    ELSE IF outcome = "unparsed"
    THEN [ok |-> TRUE,
          plan |-> [NeedsBranch |-> isOnDefault(status), CommitMessage |-> "chore: update"]]
    ELSE [ok |-> TRUE,
          plan |-> [NeedsBranch |-> isOnDefault(status) /\ hasFiles(status),
                    CommitMessage |-> aiMessage]]

\* the plan runShip goes on with when the generation failed
fallbackPlan(status) ==
    [NeedsBranch |-> isOnDefault(status), CommitMessage |-> "feat: auto-generated commit"]

\* dry run: every mutating command is replaced by a printed line
ranWithoutDryRunOfPR(dryRun, step) == step = "pr" \/ ~dryRun

runs(dryRun, step) == ~dryRun

\* a failed command ends runShip with that command's error
afterStepGoingOn(ok, err, next) == [pc |-> next, err |-> ""]

afterStep(ok, err, next) ==
    IF ok THEN [pc |-> next, err |-> ""] ELSE [pc |-> "return", err |-> err]

InitShip ==
    /\ shipIn = NoShipInput
    /\ shipPc = "idle"
    /\ workflowPlan = NoPlan
    /\ needsPush = FALSE
    /\ performed = <<>>
    /\ shipErr = ""

\* auto-pr ship, up to the status
CallRunShip ==
    /\ op = "idle"
    /\ \E input \in ShipInputs :
        /\ shipIn' = input
        /\ op' = "runShip"
        /\ workflowPlan' = NoPlan
        /\ performed' = <<>>
        /\ IF input.repo = "noAnalyzer"
           THEN shipPc' = "return" /\ shipErr' = "failed to initialize git analyzer"
                /\ needsPush' = FALSE
           ELSE IF input.repo = "notRepo"
           THEN shipPc' = "return" /\ shipErr' = "not in a git repository"
                /\ needsPush' = FALSE
           ELSE IF input.repo = "statusErr"
           THEN shipPc' = "return" /\ shipErr' = "failed to get repository status"
                /\ needsPush' = FALSE
           ELSE /\ needsPush' = (input.status.CommitsAhead > 0)
                /\ IF ~(hasFiles(input.status) \/ input.status.CommitsAhead > 0)
                   THEN shipPc' = "return" /\ shipErr' = ""
                   ELSE shipPc' = "plan" /\ shipErr' = ""

\* the workflow plan, or the fallback plan
ShipPlan ==
    /\ op = "runShip" /\ shipPc = "plan"
    /\ \E outcome \in PlanOutcomes, aiMessage \in PlanMessages :
        \E r \in {generateComprehensiveWorkflowPlan(shipIn.status, shipIn.message, outcome, aiMessage)} :
            workflowPlan' = IF r.ok THEN r.plan ELSE fallbackPlan(shipIn.status)
    /\ shipPc' = "branch"
    /\ UNCHANGED <<op, shipIn, needsPush, performed, shipErr>>

\* the feature branch
ShipBranch ==
    /\ op = "runShip" /\ shipPc = "branch"
    /\ IF workflowPlan.NeedsBranch /\ hasFiles(shipIn.status) /\ runs(shipIn.dryRun, "branch")
       THEN \E ok \in BOOLEAN :
               /\ performed' = Append(performed, [step |-> "branch", ok |-> ok])
               /\ \E a \in {afterStep(ok, "failed to create feature branch", "commit")} :
                       shipPc' = a.pc /\ shipErr' = a.err
       ELSE shipPc' = "commit" /\ UNCHANGED <<performed, shipErr>>
    /\ UNCHANGED <<op, shipIn, workflowPlan, needsPush>>

\* runCommit as runShip calls it (all = true, the message of the plan, no
\* amend, no push): status, git add ., status, message, git commit
CommitOutcomes == {"statusErr", "stageFails", "refreshErr", "messageErr", "commitFails", "ok"}

runCommit(customMessage, outcome) ==
    IF outcome = "statusErr" THEN <<>>
    ELSE IF outcome = "stageFails" THEN <<[step |-> "stage", ok |-> FALSE]>>
    ELSE IF outcome = "refreshErr" THEN <<[step |-> "stage", ok |-> TRUE]>>
    ELSE IF outcome = "messageErr" /\ customMessage = "" THEN <<[step |-> "stage", ok |-> TRUE]>>
    ELSE IF outcome = "commitFails"
    THEN <<[step |-> "stage", ok |-> TRUE], [step |-> "commit", ok |-> FALSE]>>
    ELSE <<[step |-> "stage", ok |-> TRUE], [step |-> "commit", ok |-> TRUE]>>

commitMsg(message, plan) ==
    IF message = "" /\ plan.CommitMessage # "" THEN plan.CommitMessage ELSE message

\* Step 1: commit
ShipCommit ==
    /\ op = "runShip" /\ shipPc = "commit"
    /\ IF hasFiles(shipIn.status)
       THEN IF runs(shipIn.dryRun, "commit")
            THEN \E outcome \in CommitOutcomes :
                   \E did \in {runCommit(commitMsg(shipIn.message, workflowPlan), outcome)} :
                     /\ performed' = performed \o did
                     /\ \E a \in {afterStep(did # <<>> /\ did[Len(did)] = [step |-> "commit", ok |-> TRUE], "commit failed", "push")} :
                          /\ shipPc' = a.pc /\ shipErr' = a.err
                          /\ needsPush' = IF a.pc = "push" THEN TRUE ELSE needsPush
            ELSE shipPc' = "push" /\ needsPush' = TRUE /\ UNCHANGED <<performed, shipErr>>
       ELSE shipPc' = "push" /\ UNCHANGED <<performed, shipErr, needsPush>>
    /\ UNCHANGED <<op, shipIn, workflowPlan>>

\* Step 2: push
ShipPush ==
    /\ op = "runShip" /\ shipPc = "push"
    /\ IF needsPush /\ ~shipIn.noPush /\ runs(shipIn.dryRun, "push")
       THEN \E ok \in BOOLEAN :
               /\ performed' = Append(performed, [step |-> "push", ok |-> ok])
               /\ \E a \in {afterStep(ok, "failed to push", "pr")} :
                       shipPc' = a.pc /\ shipErr' = a.err
       ELSE shipPc' = "pr" /\ UNCHANGED <<performed, shipErr>>
    /\ UNCHANGED <<op, shipIn, workflowPlan, needsPush>>

\* Step 3: pull request
ShipCreate ==
    /\ op = "runShip" /\ shipPc = "pr"
    /\ IF ~shipIn.noPR /\ runs(shipIn.dryRun, "pr")
       THEN \E ok \in BOOLEAN :
               /\ performed' = Append(performed, [step |-> "pr", ok |-> ok])
               /\ \E a \in {afterStep(ok, "PR creation failed", "return")} :
                       shipPc' = a.pc /\ shipErr' = a.err
       ELSE shipPc' = "return" /\ shipErr' = "" /\ UNCHANGED performed
    /\ UNCHANGED <<op, shipIn, workflowPlan, needsPush>>

ReturnShip ==
    /\ op = "runShip" /\ shipPc = "return"
    /\ op' = "idle"
    /\ shipIn' = NoShipInput
    /\ shipPc' = "idle"
    /\ workflowPlan' = NoPlan
    /\ needsPush' = FALSE
    /\ performed' = <<>>
    /\ shipErr' = ""


(***************************************************************************)
(* Configuration: ValidateConfig.                                          *)
(***************************************************************************)
AIProviderClaude == "claude"

\* Temperature is a float32; the model counts it in tenths
Tenths(whole) == 10 * whole

AIProviders == {AIProviderClaude, "", "auto", "gemini", "gpt"}

Configs ==
    [ AI  : [ Provider        : AIProviders,
              MaxTokens       : {0, 50, 100, 4096, 100000, 100001},
              Temperature     : {-1, 0, 7, 20, 30},
              ClaudeMaxTokens : {-1, 0} ],
      Git : [ CommitLimit : {-1, 0, 1, 10, 100, 101},
              DiffContext : {-1, 0, 3, 20, 21},
              MaxDiffSize : {-1, 0, 10000} ] ]

ErrAIConfig == "AI configuration error"

ErrGitConfig == "git configuration error"

\* the provider as validateAIConfig leaves it
providerAfter(provider) ==
    IF provider \in {"", "auto"} THEN AIProviderClaude ELSE provider

validateAIConfig(ai) ==
    IF ai.Provider \notin {AIProviderClaude, "", "auto"} THEN FALSE
    ELSE IF ai.MaxTokens # 0 /\ (ai.MaxTokens < 100 \/ ai.MaxTokens > 100000) THEN FALSE
    ELSE IF ai.Temperature < Tenths(0) \/ ai.Temperature > Tenths(2) THEN FALSE
    ELSE IF providerAfter(ai.Provider) = AIProviderClaude /\ ai.ClaudeMaxTokens < 0 THEN FALSE
    ELSE TRUE

validateGitConfig(git) ==
    IF git.CommitLimit # 0 /\ (git.CommitLimit < 1 \/ git.CommitLimit > 100) THEN FALSE
    ELSE IF git.DiffContext < 0 \/ git.DiffContext > 20 THEN FALSE
    ELSE IF git.MaxDiffSize < 0 THEN FALSE
    ELSE TRUE

ValidateConfig(config) ==
    IF ~validateAIConfig(config.AI) THEN ErrAIConfig
    ELSE IF ~validateGitConfig(config.Git) THEN ErrGitConfig
    ELSE Nil

NoConfig ==
    [ AI  |-> [Provider |-> "", MaxTokens |-> 0, Temperature |-> 0, ClaudeMaxTokens |-> 0],
      Git |-> [CommitLimit |-> 0, DiffContext |-> 0, MaxDiffSize |-> 0] ]

InitConfig ==
    /\ configArg = NoConfig
    /\ configErr = Nil

CallValidateConfig ==
    /\ op = "idle"
    /\ \E config \in Configs :
        /\ configArg' = [config EXCEPT !.AI.Provider = providerAfter(@)]
        /\ configErr' = ValidateConfig(config)
    /\ op' = "ValidateConfig"

ReturnConfig ==
    /\ op = "ValidateConfig"
    /\ op' = "idle"
    /\ configArg' = NoConfig
    /\ configErr' = Nil


(***************************************************************************)
(* Per-file counts: the file listings called on a repository whose three   *)
(* diffs (index against HEAD, working tree against index, HEAD against the *)
(* merge base with the base branch) are known.                             *)
(***************************************************************************)
PathGo == <<"m", ".", "g", "o">>

\* the paths of the repository, as git lists them
TreePaths == <<PathA, PathGo>>

\* the diffs a path can be changed in
TreeDiffs == {"staged", "unstaged", "branch"}

\* <<>> when the path is unchanged in a diff, <<added, deleted>> otherwise
NoDelta == <<>>

Deltas == {NoDelta, <<3, 1>>, <<0, 2>>}

Trees == [Range(TreePaths) -> [TreeDiffs -> Deltas]]

RECURSIVE changedFrom(_, _, _)
\* git diff --name-status of one diff: a line for each changed path
changedFrom(t, d, i) ==
    IF i > Len(TreePaths) THEN <<>>
    ELSE (IF t[TreePaths[i]][d] = NoDelta THEN <<>>
          ELSE << <<"M", "\t">> \o TreePaths[i] >>)
         \o changedFrom(t, d, i + 1)

\* git diff --numstat -- <path> compares the working tree with the index:
\* "<added>\t<deleted>\t<path>" when the path has unstaged changes, nothing
\* otherwise
numstatOf(t, path) ==
    IF t[path]["unstaged"] = NoDelta THEN Output(<<>>)
    ELSE Output(<<Digits[t[path]["unstaged"][1] + 1], "\t",
                  Digits[t[path]["unstaged"][2] + 1], "\t">> \o path \o <<"\n">>)

\* the answers of git in the repository t to the queries of
\* getDetailedFileChanges
TreeAnswers(t) ==
    [nameStatus |-> [k \in {"staged", "unstaged"} |->
                        AsText(Output(changedFrom(t, k, 1)))],
     numstat |-> [path \in Range(TreePaths) |-> numstatOf(t, path)]]

\* and to the queries of getBranchFileChanges for base branch b
TreeBranchAnswers(t, b) ==
    [nameStatus |-> [r \in {RemoteRef(b), LocalRef(b)} |->
                        AsText(Output(changedFrom(t, "branch", 1)))],
     numstat |-> [path \in Range(TreePaths) |-> numstatOf(t, path)]]

NoTree == [path \in Range(TreePaths) |-> [d \in TreeDiffs |-> NoDelta]]

InitTree ==
    /\ tree = NoTree
    /\ treeResult = <<>>

CallGetDetailedFileChanges ==
    /\ op = "idle"
    /\ \E t \in Trees :
        \E git \in {TreeAnswers(t)} :
        \E r \in getDetailedFileChanges(git) :
            /\ tree' = t
            /\ treeResult' = r.changes
    /\ op' = "getDetailedFileChanges"

CallGetBranchFileChanges ==
    /\ op = "idle"
    /\ \E t \in Trees :
        \E git \in {TreeBranchAnswers(t, DefaultBase)} :
        \E r \in {getBranchFileChanges(DefaultBase, git)} :
            /\ tree' = t
            /\ treeResult' = r.changes
    /\ op' = "getBranchFileChanges"

ReturnTree ==
    /\ op \in {"getDetailedFileChanges", "getBranchFileChanges"}
    /\ op' = "idle"
    /\ tree' = NoTree
    /\ treeResult' = <<>>


(***************************************************************************)
(* The header line of git log and its way back through the parser.         *)
(***************************************************************************)
\* the commits of the repository: hash, subject, author name, author email
\* and author time
Subjects == {<<"s">>, <<>>, <<"s", " ", "t">>, <<"s", " ">>, <<"s", "|", "t">>,
             <<"|">>, <<"s", "|", "t", "|", "u">>}

Commits ==
    [ hash    : {<<"1">>, <<"2">>},
      subject : Subjects,
      author  : {<<"a">>, <<"b", " ", "c">>},
      email   : {<<"e">>, <<"f">>},
      time    : {0, 7, 18} ]

\* a number below 100 in decimal
DecimalText(n) == IF n < 10 THEN <<Digits[n + 1]>> ELSE <<Digits[(n \div 10) + 1], Digits[(n % 10) + 1]>>

\* --pretty=format:%H|%s|%an|%ae|%at
prettyFormat(c) ==
    c.hash \o <<"|">> \o c.subject \o <<"|">> \o c.author \o <<"|">> \o c.email
           \o <<"|">> \o DecimalText(c.time)

NoCommitArg == [hash |-> <<>>, subject |-> <<>>, author |-> <<>>, email |-> <<>>, time |-> 0]

InitFormat ==
    /\ logged = NoCommitArg
    /\ headerLine = <<>>
    /\ parsedBack = [commits |-> NilSlice, err |-> Nil]

\* GetCommitHistory in a repository whose log is the one commit c
CallLogOfCommit ==
    /\ op = "idle"
    /\ \E c \in Commits :
        \E line \in {prettyFormat(c)} :
        \E r \in {parseCommitHistory(line \o <<"\n">>, CallTime)} :
            /\ logged' = c
            /\ headerLine' = line
            /\ parsedBack' = r
    /\ op' = "logOfCommit"

ReturnFormat ==
    /\ op = "logOfCommit"
    /\ op' = "idle"
    /\ logged' = NoCommitArg
    /\ headerLine' = <<>>
    /\ parsedBack' = [commits |-> NilSlice, err |-> Nil]

(***************************************************************************)
(* Specifications.                                                         *)
(***************************************************************************)
InitAll ==
    /\ op = "idle"
    /\ InitMerge /\ InitStatus /\ InitRepo /\ InitHistory /\ InitDiff
    /\ InitParse
    /\ InitWorktree
    /\ InitAnalyzer
    /\ InitShip
    /\ InitConfig
    /\ InitTree
    /\ InitFormat

\* mergeFileChanges alone
NextM ==
    \/ CallMerge /\ UNCHANGED <<statusVars, repoVars, historyVars, diffVars, parseVars, worktreeVars, analyzerVars, shipVars, configVars, treeVars, formatVars>>
    \/ CallMergeAgain /\ UNCHANGED <<statusVars, repoVars, historyVars, diffVars, parseVars, worktreeVars, analyzerVars, shipVars, configVars, treeVars, formatVars>>
    \/ CallMergeSame /\ UNCHANGED <<statusVars, repoVars, historyVars, diffVars, parseVars, worktreeVars, analyzerVars, shipVars, configVars, treeVars, formatVars>>
    \/ ReturnMerge /\ UNCHANGED <<statusVars, repoVars, historyVars, diffVars, parseVars, worktreeVars, analyzerVars, shipVars, configVars, treeVars, formatVars>>
SpecMerge == InitAll /\ [][NextM]_vars

\* the status collector
NextS ==
    \/ CallGetFileStatuses /\ UNCHANGED <<mergeVars, repoVars, historyVars, diffVars, parseVars, worktreeVars, analyzerVars, shipVars, configVars, treeVars, formatVars>>
    \/ ReturnStatus /\ UNCHANGED <<mergeVars, repoVars, historyVars, diffVars, parseVars, worktreeVars, analyzerVars, shipVars, configVars, treeVars, formatVars>>
SpecStatus == InitAll /\ [][NextS]_vars

\* the commit history reader
NextH ==
    \/ CallGetCommitHistory /\ UNCHANGED <<mergeVars, statusVars, diffVars, parseVars, worktreeVars, analyzerVars, shipVars, configVars, treeVars, formatVars>>
    \/ CallGetCommitsSinceBase /\ UNCHANGED <<mergeVars, statusVars, diffVars, parseVars, worktreeVars, analyzerVars, shipVars, configVars, treeVars, formatVars>>
    \/ ReturnHistory /\ UNCHANGED <<mergeVars, statusVars, diffVars, parseVars, worktreeVars, analyzerVars, shipVars, configVars, treeVars, formatVars>>
SpecHistory == InitAll /\ [][NextH]_vars

\* the diff aggregator and the branch comparator
NextD ==
    \/ CallGetDiffSummary /\ UNCHANGED <<mergeVars, statusVars, historyVars, parseVars, worktreeVars, analyzerVars, shipVars, configVars, treeVars, formatVars>>
    \/ CallGetBranchDiff /\ UNCHANGED <<mergeVars, statusVars, historyVars, parseVars, worktreeVars, analyzerVars, shipVars, configVars, treeVars, formatVars>>
    \/ ReturnDiff /\ UNCHANGED <<mergeVars, statusVars, historyVars, parseVars, worktreeVars, analyzerVars, shipVars, configVars, treeVars, formatVars>>
SpecDiff == InitAll /\ [][NextD]_vars

\* the parsers on their own
NextP ==
    \/ CallParseNameStatus
            /\ UNCHANGED <<mergeVars, statusVars, repoVars, historyVars, diffVars, worktreeVars, analyzerVars, shipVars, configVars, treeVars, formatVars>>
    \/ CallMapGitStatus
            /\ UNCHANGED <<mergeVars, statusVars, repoVars, historyVars, diffVars, worktreeVars, analyzerVars, shipVars, configVars, treeVars, formatVars>>
    \/ CallParseStatOutput
            /\ UNCHANGED <<mergeVars, statusVars, repoVars, historyVars, diffVars, worktreeVars, analyzerVars, shipVars, configVars, treeVars, formatVars>>
    \/ CallIsBinaryFile
            /\ UNCHANGED <<mergeVars, statusVars, repoVars, historyVars, diffVars, worktreeVars, analyzerVars, shipVars, configVars, treeVars, formatVars>>
    \/ ReturnParse
            /\ UNCHANGED <<mergeVars, statusVars, repoVars, historyVars, diffVars, worktreeVars, analyzerVars, shipVars, configVars, treeVars, formatVars>>
SpecParse == InitAll /\ [][NextP]_vars

\* concurrent calls on one Analyzer
NextC ==
    \/ NewAnalyzer
            /\ UNCHANGED <<mergeVars, statusVars, repoVars, historyVars, diffVars, parseVars, worktreeVars, shipVars, configVars, treeVars, formatVars>>
    \/ \E g \in Goroutines : BeginCall(g)
            /\ UNCHANGED <<mergeVars, statusVars, repoVars, historyVars, diffVars, parseVars, worktreeVars, shipVars, configVars, treeVars, formatVars>>
    \/ \E g \in Goroutines : StepCall(g)
            /\ UNCHANGED <<mergeVars, statusVars, repoVars, historyVars, diffVars, parseVars, worktreeVars, shipVars, configVars, treeVars, formatVars>>
    \/ \E g \in Goroutines : EndCall(g)
            /\ UNCHANGED <<mergeVars, statusVars, repoVars, historyVars, diffVars, parseVars, worktreeVars, shipVars, configVars, treeVars, formatVars>>
    \/ DropAnalyzer
            /\ UNCHANGED <<mergeVars, statusVars, repoVars, historyVars, diffVars, parseVars, worktreeVars, shipVars, configVars, treeVars, formatVars>>
SpecConcurrent == InitAll /\ [][NextC]_vars

\* the ship command
NextShip ==
    \/ CallRunShip
            /\ UNCHANGED <<mergeVars, statusVars, repoVars, historyVars, diffVars, parseVars, worktreeVars, analyzerVars, configVars, treeVars, formatVars>>
    \/ ShipPlan
            /\ UNCHANGED <<mergeVars, statusVars, repoVars, historyVars, diffVars, parseVars, worktreeVars, analyzerVars, configVars, treeVars, formatVars>>
    \/ ShipBranch
            /\ UNCHANGED <<mergeVars, statusVars, repoVars, historyVars, diffVars, parseVars, worktreeVars, analyzerVars, configVars, treeVars, formatVars>>
    \/ ShipCommit
            /\ UNCHANGED <<mergeVars, statusVars, repoVars, historyVars, diffVars, parseVars, worktreeVars, analyzerVars, configVars, treeVars, formatVars>>
    \/ ShipPush
            /\ UNCHANGED <<mergeVars, statusVars, repoVars, historyVars, diffVars, parseVars, worktreeVars, analyzerVars, configVars, treeVars, formatVars>>
    \/ ShipCreate
            /\ UNCHANGED <<mergeVars, statusVars, repoVars, historyVars, diffVars, parseVars, worktreeVars, analyzerVars, configVars, treeVars, formatVars>>
    \/ ReturnShip
            /\ UNCHANGED <<mergeVars, statusVars, repoVars, historyVars, diffVars, parseVars, worktreeVars, analyzerVars, configVars, treeVars, formatVars>>

SpecShip == InitAll /\ [][NextShip]_vars

\* the configuration check
NextV ==
    \/ CallValidateConfig
            /\ UNCHANGED <<mergeVars, statusVars, repoVars, historyVars, diffVars, parseVars, worktreeVars, analyzerVars, shipVars, treeVars, formatVars>>
    \/ ReturnConfig
            /\ UNCHANGED <<mergeVars, statusVars, repoVars, historyVars, diffVars, parseVars, worktreeVars, analyzerVars, shipVars, treeVars, formatVars>>

SpecConfig == InitAll /\ [][NextV]_vars

\* the file listings on a repository with known diffs
NextT ==
    \/ CallGetDetailedFileChanges
            /\ UNCHANGED <<mergeVars, statusVars, repoVars, historyVars, diffVars, parseVars, worktreeVars, analyzerVars, shipVars, configVars, formatVars>>
    \/ CallGetBranchFileChanges
            /\ UNCHANGED <<mergeVars, statusVars, repoVars, historyVars, diffVars, parseVars, worktreeVars, analyzerVars, shipVars, configVars, formatVars>>
    \/ ReturnTree
            /\ UNCHANGED <<mergeVars, statusVars, repoVars, historyVars, diffVars, parseVars, worktreeVars, analyzerVars, shipVars, configVars, formatVars>>

SpecTree == InitAll /\ [][NextT]_vars

\* the header line and the parser
NextF ==
    \/ CallLogOfCommit
            /\ UNCHANGED <<mergeVars, statusVars, repoVars, historyVars, diffVars, parseVars, worktreeVars, analyzerVars, shipVars, configVars, treeVars>>
    \/ ReturnFormat
            /\ UNCHANGED <<mergeVars, statusVars, repoVars, historyVars, diffVars, parseVars, worktreeVars, analyzerVars, shipVars, configVars, treeVars>>

SpecFormat == InitAll /\ [][NextF]_vars

\* the repository inspector
NextW ==
    \/ CallIsGitRepository
            /\ UNCHANGED <<mergeVars, statusVars, historyVars, diffVars, parseVars, analyzerVars, shipVars, configVars, treeVars, formatVars>>
    \/ CallGetRemoteURL
            /\ UNCHANGED <<mergeVars, statusVars, historyVars, diffVars, parseVars, analyzerVars, shipVars, configVars, treeVars, formatVars>>
    \/ CallGetBaseBranch
            /\ UNCHANGED <<mergeVars, statusVars, historyVars, diffVars, parseVars, analyzerVars, shipVars, configVars, treeVars, formatVars>>
    \/ CallGetStatus
            /\ UNCHANGED <<mergeVars, statusVars, historyVars, diffVars, parseVars, analyzerVars, shipVars, configVars, treeVars, formatVars>>
    \/ ReturnWorktree
            /\ UNCHANGED <<mergeVars, statusVars, historyVars, diffVars, parseVars, analyzerVars, shipVars, configVars, treeVars, formatVars>>
SpecWorktree == InitAll /\ [][NextW]_vars


(***************************************************************************)
(* Properties of mergeFileChanges.                                         *)
(***************************************************************************)
PathsOf(chs) == {chs[i].Path : i \in 1..Len(chs)}

IndexesOf(chs, path) == {i \in 1..Len(chs) : chs[i].Path = path}

RECURSIVE SumAt(_, _)
SumAt(f, S) ==
    IF S = {} THEN 0
    ELSE LET i == CHOOSE j \in S : TRUE IN f[i] + SumAt(f, S \ {i})

TotalAdditions(chs) == SumAt([i \in 1..Len(chs) |-> chs[i].Additions], 1..Len(chs))
TotalDeletions(chs) == SumAt([i \in 1..Len(chs) |-> chs[i].Deletions], 1..Len(chs))

UniquePaths(chs) == \A i, j \in 1..Len(chs) : chs[i].Path = chs[j].Path => i = j

\* the entry the merge is to hold for a path of the input
MergedEntryFor(chs, path) ==
    LET at   == IndexesOf(chs, path)
        last == CHOOSE i \in at : \A j \in at : j <= i
    IN  FileChange(path, chs[last].Status,
                   SumAt([i \in 1..Len(chs) |-> chs[i].Additions], at),
                   SumAt([i \in 1..Len(chs) |-> chs[i].Deletions], at),
                   \E i \in at : chs[i].IsBinary)

\* C2: mergeFileChanges returns exactly one entry per distinct input path,
\* with the additions and the deletions summed over the input entries of that
\* path, isBinary the OR of theirs and the status of the last of them.
C2_MergeOnePerPath ==
    op = "mergeFileChanges" =>
        /\ UniquePaths(merged)
        /\ PathsOf(merged) = PathsOf(changes)
        /\ \A i \in 1..Len(merged) :
                merged[i] = MergedEntryFor(changes, merged[i].Path)

\* a path given three times, with different statuses, counts and binary flags
C2_Witness ==
    /\ op = "mergeFileChanges"
    /\ Len(changes) = 3
    /\ \A i \in 1..3 : changes[i].Path = PathA
    /\ changes[1].Status # changes[3].Status
    /\ changes[1].IsBinary /\ ~changes[3].IsBinary
    /\ changes[1].Additions > 0 /\ changes[2].Deletions > 0 /\ changes[3].Additions > 0

\* C3: mergeFileChanges is idempotent: merging a merged slice again gives
\* the same set of entries, and so the same totals.
C3_MergeIdempotent ==
    op = "mergeFileChangesAgain" =>
        /\ Range(remerged) = Range(merged)
        /\ Len(remerged) = Len(merged)
        /\ TotalAdditions(remerged) = TotalAdditions(merged)
        /\ TotalDeletions(remerged) = TotalDeletions(merged)

\* the second merge ran on the result of a merge that had entries to combine
C3_Witness ==
    /\ op = "mergeFileChangesAgain"
    /\ Len(changes) > Len(merged)
    /\ Len(merged) = 2
    /\ TotalAdditions(merged) > 0

(***************************************************************************)
(* Properties of getFileStatuses.                                          *)
(***************************************************************************)
\* the lines of a listing the scanner hands to the loop
ScannedLines(listing) ==
    LET long == {i \in 1..Len(listing) : \E k \in 1..Len(listing[i]) :
                                            listing[i][k] = LongRun}
    IN  IF long = {} THEN listing
        ELSE SubSeq(listing, 1, (CHOOSE i \in long : \A j \in long : i <= j) - 1)

IsEntryLine(line) == Len(line) >= 3

CodeStaged(line) == IsEntryLine(line) /\ line[1] \notin {" ", "?"}
CodeUnstaged(line) == IsEntryLine(line) /\ line[2] \notin {" ", "?"}
CodeUntracked(line) == IsEntryLine(line) /\ line[1] = "?" /\ line[2] = "?"

PathsOfLines(lines) == [i \in 1..Len(lines) |-> SubSeq(lines[i], 4, Len(lines[i]))]

\* C6: getFileStatuses puts the path of a status line in Staged iff the first
\* character of its code is neither blank nor '?', in Unstaged iff the second
\* one is neither blank nor '?', in Untracked iff both are '?'; so no path is
\* in Untracked together with Staged or Unstaged.
C6_StatusPartition ==
    (op = "getFileStatuses" /\ statusListing.ok) =>
        LET lines == ScannedLines(statusListing.out)
        IN  /\ statusResult.staged = PathsOfLines(SelectSeq(lines, CodeStaged))
            /\ statusResult.unstaged = PathsOfLines(SelectSeq(lines, CodeUnstaged))
            /\ statusResult.untracked = PathsOfLines(SelectSeq(lines, CodeUntracked))
            /\ Range(statusResult.untracked)
                  \cap (Range(statusResult.staged) \cup Range(statusResult.unstaged)) = {}

\* a partially staged file lands in both lists, next to an untracked file
C6_Witness ==
    /\ op = "getFileStatuses"
    /\ statusListing = Output(<<<<"M", "M", " ">> \o PathA, <<"?", "?", " ">> \o PathDb>>)
    /\ statusResult.staged = <<PathA>>
    /\ statusResult.unstaged = <<PathA>>
    /\ statusResult.untracked = <<PathDb>>

(***************************************************************************)
(* Properties of the commit history reader.                                *)
(***************************************************************************)
\* a header line carries five fields or more, joined by the delimiter
IsHeaderLine(line) == Cardinality({i \in 1..Len(line) : line[i] = "|"}) >= 4

IsFileLine(line) ==
    /\ \E i \in 1..Len(line) : line[i] \notin {" ", "\t"}
    /\ \A i \in 1..Len(line) : line[i] # "|"

HeaderIndexes(lines) == {i \in 1..Len(lines) : IsHeaderLine(lines[i])}

\* the k-th smallest member of a set of numbers
Nth(S, k) == CHOOSE i \in S : Cardinality({j \in S : j < i}) = k - 1

\* the file lines after line i and before the next header line
FilesAfter(lines, i) ==
    LET later == {j \in HeaderIndexes(lines) : j > i}
        stop  == IF later = {} THEN Len(lines) + 1
                 ELSE CHOOSE j \in later : \A m \in later : j <= m
        files == SelectSeq(SubSeq(lines, i + 1, stop - 1), IsFileLine)
    IN  [m \in 1..Len(files) |-> TrimSpace(files[m])]

\* C5: parseCommitHistory yields exactly one CommitRecord per header line,
\* in input order, whose Files are exactly the non-blank lines without a
\* delimiter between its header and the next header (or the end of input).
C5_OneRecordPerHeader ==
    (op = "GetCommitHistory" /\ logListing[HeadRef].ok /\ historyResult.err = Nil) =>
        LET lines   == logListing[HeadRef].out
            headers == HeaderIndexes(lines)
            records == historyResult.commits.items
        IN  /\ Len(records) = Cardinality(headers)
            /\ \A k \in 1..Len(records) :
                  /\ records[k].Hash = Split(lines[Nth(headers, k)], "|")[1]
                  /\ records[k].Files = FilesAfter(lines, Nth(headers, k))

\* C8: GetCommitsSinceBase verifies origin/<base> first and <base> only when
\* origin/<base> does not resolve; it returns "base branch not found" and no
\* commits exactly when neither resolves; and the commits it returns are
\* those of the log over origin/<base>..HEAD if origin/<base> resolves,
\* otherwise those of the log over <base>..HEAD.
C8_SinceBaseResolution ==
    op = "GetCommitsSinceBase" =>
        LET b      == IF baseBranch = "" THEN DefaultBase ELSE baseBranch
            remote == RemoteRef(b)
            local  == LocalRef(b)
            used   == IF remote \in refs THEN remote ELSE local
        IN  /\ queries[1] = Query("rev-parse", remote, 0)
            /\ (\E i \in 1..Len(queries) : queries[i] = Query("rev-parse", local, 0))
                  <=> remote \notin refs
            /\ historyResult.err = ErrBaseNotFound
                  <=> (remote \notin refs /\ local \notin refs)
            /\ historyResult.err = ErrBaseNotFound
                  => (historyResult.commits = NilSlice /\ Len(queries) = 2)
            /\ historyResult.err = Nil
                  => /\ queries[Len(queries)] = Query("log", used, 0)
                     /\ historyResult.commits =
                            commitsOfLog(JoinLines(logListing[used].out), now).commits

\* only the local ref resolves, and the two logs would differ
C8_Witness ==
    /\ op = "GetCommitsSinceBase"
    /\ refs = {LocalRef(DefaultBase)}
    /\ baseBranch = ""
    /\ Len(queries) = 4
    /\ historyResult.err = Nil
    /\ Len(historyResult.commits.items) = 2

\* both refs resolve and their logs differ: the remote one is used
C8_WitnessBoth ==
    /\ op = "GetCommitsSinceBase"
    /\ refs = {RemoteRef("dev"), LocalRef("dev")}
    /\ logListing[RemoteRef("dev")] # logListing[LocalRef("dev")]
    /\ historyResult.err = Nil
    /\ Len(historyResult.commits.items) = 1

IsBlankListing(listing) ==
    \A i \in 1..Len(listing) : \A k \in 1..Len(listing[i]) :
        listing[i][k] \in {" ", "\t"}

\* C9: when the base ref resolves and the log over <base>..HEAD prints
\* nothing but white space, GetCommitsSinceBase returns an empty list that
\* is not nil, and no error.
C9_NoCommitsAhead ==
    op = "GetCommitsSinceBase" =>
        LET b    == IF baseBranch = "" THEN DefaultBase ELSE baseBranch
            used == IF RemoteRef(b) \in refs THEN RemoteRef(b) ELSE LocalRef(b)
        IN  (used \in refs /\ headOK /\ IsBlankListing(logListing[used].out))
                => historyResult = [commits |-> EmptySlice, err |-> Nil]

\* the log printed blank lines only
C9_Witness ==
    /\ op = "GetCommitsSinceBase"
    /\ refs = {RemoteRef(DefaultBase)}
    /\ headOK
    /\ logListing[RemoteRef(DefaultBase)].out = <<BlankLine, BlankLine>>
    /\ historyResult = [commits |-> EmptySlice, err |-> Nil]

(***************************************************************************)
(* Properties of GetDiffSummary and GetBranchDiff.                         *)
(***************************************************************************)
\* a name-status line "<code>\t<path>"
IsChangeLine(line) == Len(line) >= 3 /\ line[2] = "\t"

PathOfLine(line) == SubSeq(line, 3, Len(line))

CodeStatus(line) ==
    IF line[1] = "A" THEN StatusAdded
    ELSE IF line[1] = "D" THEN StatusDeleted
    ELSE StatusModified

\* the paths named by the lines of a listing that answered
PathsInListing(outcome) ==
    IF ~outcome.ok THEN {}
    ELSE {PathOfLine(outcome.out[i]) :
            i \in {j \in 1..Len(outcome.out) : IsChangeLine(outcome.out[j])}}

\* the scanner read the listing to its end
FullyScanned(outcome) == outcome.ok /\ ScannedLines(outcome.out) = outcome.out

\* the entry the name-status parse, enriched with FileStat, makes of a line
EntryOfLine(line, table) ==
    LET path  == PathOfLine(line)
        stats == getFileStats(table[path])
    IN  FileChange(path, CodeStatus(line),
                   IF stats.err # Nil THEN 0 ELSE stats.additions,
                   IF stats.err # Nil THEN 0 ELSE stats.deletions,
                   path = PathDb)

\* the entries of the scanned lines of a listing
EntriesOfScanned(outcome, table) ==
    LET lines == SelectSeq(ScannedLines(outcome.out), IsChangeLine)
    IN  [i \in 1..Len(lines) |-> EntryOfLine(lines[i], table)]

\* the entries a listing supplies: none unless it is read to its end
SuppliedBy(outcome, table) ==
    IF FullyScanned(outcome) THEN EntriesOfScanned(outcome, table) ELSE <<>>

\* the entry the stat-summary parse makes of a line "<path> | <count> <bar>"
StatEntryOfLine(line) ==
    LET bar   == CHOOSE i \in 1..Len(line) : line[i] = "|"
        plus  == Cardinality({i \in bar..Len(line) : line[i] = "+"})
        minus == Cardinality({i \in bar..Len(line) : line[i] = "-"})
    IN  FileChange(SubSeq(line, 2, bar - 2),
                   IF plus > 0 /\ minus = 0 THEN StatusAdded
                   ELSE IF plus = 0 /\ minus > 0 THEN StatusDeleted
                   ELSE StatusModified,
                   plus, minus, FALSE)

StatEntries(outcome) == [i \in 1..Len(outcome.out) |-> StatEntryOfLine(outcome.out[i])]

\* the ref GetBranchDiff compares with: origin/<base> if it resolves
ComparedRef ==
    LET b == IF baseBranch = "" THEN DefaultBase ELSE baseBranch
    IN  IF RemoteRef(b) \in refs THEN RemoteRef(b) ELSE LocalRef(b)

Returned == diffResult.summary.FileChanges.items

\* the last line of a listing that names the path
LastLineFor(outcome, path) ==
    LET at == {i \in 1..Len(outcome.out) :
                  IsChangeLine(outcome.out[i]) /\ PathOfLine(outcome.out[i]) = path}
    IN  outcome.out[CHOOSE i \in at : \A j \in at : j <= i]

\* C1: no two FileChange entries of a summary returned by GetDiffSummary or
\* GetBranchDiff have the same path, whatever the queries print.
C1_NoSharedPath ==
    (op \in {"GetDiffSummary", "GetBranchDiff"} /\ ~diffResult.isNil) =>
        UniquePaths(Returned)

C7_NoSummaryWithoutBase ==
    op = "GetBranchDiff" =>
        LET b == IF baseBranch = "" THEN DefaultBase ELSE baseBranch
        IN  ((RemoteRef(b) \notin refs /\ LocalRef(b) \notin refs)
                \/ (~statListing[RemoteRef(b)].ok /\ ~statListing[LocalRef(b)].ok))
                => /\ diffResult.isNil
                   /\ diffResult.err = ErrBranchDiff
                   /\ queries = <<Query("diff --stat", RemoteRef(b), 0),
                                  Query("diff --stat", LocalRef(b), 0)>>

\* no ref of the base branch exists while HEAD is a commit
C7_Witness ==
    /\ op = "GetBranchDiff"
    /\ baseBranch = "dev"
    /\ refs = {}
    /\ headOK
    /\ diffResult.isNil
    /\ diffResult.err = ErrBranchDiff

HasPathField(line) == Len(Fields(line)) >= 2

\* the classification of a status character
ClassOf(c) ==
    CASE c = "A" -> StatusAdded
      [] c = "M" -> StatusModified
      [] c = "D" -> StatusDeleted
      [] c = "R" -> StatusRenamed
      [] c = "C" -> StatusCopied
      [] c = "?" -> StatusUntracked
      [] OTHER   -> StatusModified

AllDigits(field) == field # <<>> /\ \A i \in 1..Len(field) : IsDigit(field[i])

\* the numstat answer gives no counts: the query failed, printed nothing, or
\* printed fields that are no numbers
NoCounts(outcome) ==
    \/ ~outcome.ok
    \/ Len(Fields(outcome.out)) < 2
    \/ ~AllDigits(Fields(outcome.out)[1])
    \/ ~AllDigits(Fields(outcome.out)[2])

\* the (additions, deletions) FileStat reports for a numstat answer
ReportedCounts(outcome) ==
    IF NoCounts(outcome) THEN <<0, 0>>
    ELSE <<DecimalValue(Fields(outcome.out)[1]), DecimalValue(Fields(outcome.out)[2])>>

\* C11: parseNameStatus returns one FileChange per line that has a status
\* field and a path field, in input order, with the line's path field, the
\* status classified from its status code and the counts FileStat reports
\* for the path; blank lines and lines with one field yield no entry.
C11_OneEntryPerLine ==
    op = "parseNameStatus" =>
        LET lines == SelectSeq(ScannedLines(parseArg), HasPathField)
            out   == parseOut.changes
        IN  /\ Len(out) = Len(lines)
            /\ \A i \in 1..Len(out) :
                  LET fields == Fields(lines[i])
                  IN  /\ out[i].Path = fields[2]
                      /\ out[i].Status = ClassOf(fields[1][1])
                      /\ <<out[i].Additions, out[i].Deletions>>
                            = ReportedCounts(parseStats[fields[2]])

\* a line with one field is passed over, the next line gives the entry with
\* the counts of the numstat answer
C11_Witness ==
    /\ op = "parseNameStatus"
    /\ parseArg = <<NameStatusOneField, NameStatusModA>>
    /\ parseOut.changes = <<FileChange(PathA, StatusModified, 3, 1, FALSE)>>
    /\ parseOut.err = Nil

\* C12: mapGitStatus classifies a status code by its first character only:
\* A added, M modified, D deleted, R renamed, C copied, ? untracked, any
\* other character modified; what follows the first character changes
\* nothing.
C12_FirstCharacterOnly ==
    op = "mapGitStatus" =>
        /\ parseOut = ClassOf(parseArg[1])
        /\ parseOut = mapGitStatus(<<parseArg[1]>>)

\* a rename code with its similarity score
C12_Witness ==
    /\ op = "mapGitStatus"
    /\ parseArg = <<"R", "1", "0", "0">>
    /\ parseOut = StatusRenamed

\* C13: a numstat query that fails, prints nothing, or prints counts that
\* are no numbers never makes parseNameStatus fail or drop the entry: the
\* FileChange of the path is produced with additions 0 and deletions 0, and
\* the other lines are processed as well.
C13_FileStatFailureKeepsEntry ==
    op = "parseNameStatus" =>
        LET lines == SelectSeq(ScannedLines(parseArg), HasPathField)
            out   == parseOut.changes
        IN  /\ parseOut.err # Nil => ScannedLines(parseArg) # parseArg
            /\ Len(out) = Len(lines)
            /\ \A i \in 1..Len(lines) :
                  LET path == Fields(lines[i])[2]
                  IN  /\ out[i].Path = path
                      /\ NoCounts(parseStats[path])
                            => (out[i].Additions = 0 /\ out[i].Deletions = 0)

\* the numstat query fails for the first path and answers for the second
C13_Witness ==
    /\ op = "parseNameStatus"
    /\ parseArg = <<NameStatusModA, NameStatusAddDb>>
    /\ ~parseStats[PathA].ok
    /\ parseOut.err = Nil
    /\ parseOut.changes = <<FileChange(PathA, StatusModified, 0, 0, FALSE),
                            FileChange(PathDb, StatusAdded, 0, 2, TRUE)>>

\* the numstat answer holds the dashes of a binary entry
C13_WitnessDashes ==
    /\ op = "parseNameStatus"
    /\ parseArg = <<NameStatusAddDb, NameStatusModA>>
    /\ Fields(parseStats[PathDb].out)[1] = <<"-">>
    /\ parseOut.changes = <<FileChange(PathDb, StatusAdded, 0, 0, TRUE),
                            FileChange(PathA, StatusModified, 3, 1, FALSE)>>

\* a stat line "path | count bar"
IsStatLine(line) == Cardinality({i \in 1..Len(line) : line[i] = "|"}) = 1

\* C14: for every stat line "path | count bar" parseStatOutput records for
\* the path as many additions as the bar has '+' and as many deletions as it
\* has '-', whatever the count says, and adds exactly these numbers to the
\* Additions and Deletions of the summary.
C14_GlyphCounts ==
    op = "parseStatOutput" =>
        LET lines    == SelectSeq(parseArg, IsStatLine)
            expected == [i \in 1..Len(lines) |-> StatEntryOfLine(lines[i])]
            entries  == parseOut.FileChanges.items
        IN  /\ Len(entries) = Len(lines)
            /\ \A i \in 1..Len(lines) :
                  /\ entries[i].Path = expected[i].Path
                  /\ entries[i].Additions = expected[i].Additions
                  /\ entries[i].Deletions = expected[i].Deletions
            /\ parseOut.Additions = TotalAdditions(expected)
            /\ parseOut.Deletions = TotalDeletions(expected)
            /\ parseOut.TotalFiles = Len(lines)

\* a line whose count is 9 and whose bar is "++-", then a line with "--"
C14_Witness ==
    /\ op = "parseStatOutput"
    /\ parseArg = <<StatLineCount, StatLineMinus>>
    /\ parseOut.FileChanges.items[1].Additions = 2
    /\ parseOut.FileChanges.items[1].Deletions = 1
    /\ parseOut.Additions = 2
    /\ parseOut.Deletions = 3

(***************************************************************************)
(* Further properties of the commit history reader.                        *)
(***************************************************************************)
\* HeaderBad with a timestamp that is a number
HeaderMended == <<"3", "|", "s", "|", "a", "|", "e", "|", "7">>

Mended(lines) ==
    [i \in 1..Len(lines) |-> IF lines[i] = HeaderBad THEN HeaderMended ELSE lines[i]]

\* C15: a header whose timestamp is no integer does not abort
\* parseCommitHistory: its commit is emitted with hash, subject, author and
\* email and the current time as date, no error is returned for it, and the
\* result is otherwise the one of the same listing with a valid timestamp.
C15_BadTimestampTolerated ==
    (op = "GetCommitHistory" /\ logListing[HeadRef].ok) =>
        LET lines   == logListing[HeadRef].out
            valid   == parseCommitHistory(JoinLines(Mended(lines)), now)
            records == historyResult.commits.items
        IN  /\ historyResult.err = valid.err
            /\ historyResult.err # Nil => ScannedLines(lines) # lines
            /\ Len(records) = Len(valid.commits.items)
            /\ \A k \in 1..Len(records) :
                  IF records[k].Hash = <<"3">>
                  THEN /\ records[k] = [valid.commits.items[k] EXCEPT !.Date = now]
                       /\ records[k].Message = <<"s">>
                       /\ records[k].Author = <<"a">>
                       /\ records[k].Email = <<"e">>
                  ELSE records[k] = valid.commits.items[k]
            /\ \A i \in 1..Len(ScannedLines(lines)) :
                  lines[i] = HeaderBad => \E k \in 1..Len(records) : records[k].Hash = <<"3">>

\* a header with a bad timestamp, its file line, and a further header
C15_Witness ==
    /\ op = "GetCommitHistory"
    /\ logListing[HeadRef] = Output(<<HeaderBad, FileF, Header2>>)
    /\ historyResult.err = Nil
    /\ Len(historyResult.commits.items) = 2
    /\ historyResult.commits.items[1].Hash = <<"3">>
    /\ historyResult.commits.items[1].Date = now
    /\ historyResult.commits.items[1].Files = <<FileF>>
    /\ historyResult.commits.items[2].Hash = <<"2">>
    /\ historyResult.commits.items[2].Date = 8

\* the number of commits GetCommitHistory is to ask for
AskedLimit == IF limitArg > 0 THEN limitArg ELSE 10

\* C20: GetCommitHistory(limit) asks the log query for exactly limit commits
\* when limit > 0 and for exactly 10 otherwise, and returns no more
\* CommitRecords than that when the log output has at most that many header
\* lines.
C20_LimitRespected ==
    op = "GetCommitHistory" =>
        /\ queries = <<Query("log", HeadRef, AskedLimit)>>
        /\ (logListing[HeadRef].ok
              /\ Cardinality(HeaderIndexes(logListing[HeadRef].out)) <= AskedLimit)
                => Len(historyResult.commits.items) <= AskedLimit

(***************************************************************************)
(* Properties of the repository inspector.                                 *)
(***************************************************************************)
\* C16: IsGitRepository returns true when .git under the repository path
\* exists as a directory and also when it exists as a regular file (linked
\* working tree), and false only when it is absent.
C16_TrueForDirectoryOrFile ==
    op = "IsGitRepository" => (repoResult <=> gitEntry # EntryAbsent)

\* the branch refs/remotes/origin/HEAD names
PointedBranch == SubSeq(originHead.out[1], Len(RemotesOrigin) + 1, Len(originHead.out[1]))

\* the branch the fixed order resolves to
ResolvedBase ==
    IF gitWorks /\ originHead.ok THEN PointedBranch
    ELSE IF gitWorks /\ Main \in remoteBranches THEN Main
    ELSE IF gitWorks /\ Master \in remoteBranches THEN Master
    ELSE IF gitWorks /\ Develop \in remoteBranches THEN Develop
    ELSE Main

\* C17: getBaseBranch never fails and resolves in the fixed order: the
\* branch the remote default-branch pointer names when that query succeeds;
\* otherwise the first of main, master, develop that exists as a
\* remote-tracking ref; otherwise the literal "main".
C17_FixedOrder ==
    op = "getBaseBranch" =>
        /\ repoResult.err = Nil
        /\ repoResult.branch = ResolvedBase

\* the URL of origin as the repository has it, "" without one
ConfiguredURL == IF gitWorks /\ originURL.ok THEN originURL.out[1] ELSE <<>>

\* the error a caller is handed: GetRemoteURL has no error result
ReportedError == IF op = "GetStatus" THEN repoResult.err ELSE Nil

\* GetStatus got as far as asking for the URL of origin
AsksRemoteURL == op = "GetStatus" /\ IsGitRepository(gitEntry) /\ gitWorks

QueryFailed(q) ==
    CASE q.cmd = "branch --show-current" -> ~gitWorks
      [] q.cmd = "remote get-url"        -> ~(gitWorks /\ originURL.ok)
      [] q.cmd = "symbolic-ref"          -> ~(gitWorks /\ originHead.ok)
      [] q.cmd = "show-ref"              -> ~(gitWorks /\ q.ref[2] \in remoteBranches)
      [] q.cmd = "status"                -> ~(gitWorks /\ indexOK)
      [] q.cmd \in {"rev-list ahead", "rev-list behind"}
                                         -> ~(gitWorks /\ q.ref[2] \in remoteBranches)

\* the queries of the base-branch heuristics
IsHeuristic(q) == q.cmd \in {"symbolic-ref", "show-ref"}

FailedOf(cmds) ==
    \E i \in 1..Len(queries) : queries[i].cmd \in cmds /\ QueryFailed(queries[i])

C18_WitnessCounts ==
    /\ op = "GetStatus"
    /\ gitEntry = EntryDir
    /\ gitWorks
    /\ indexOK
    /\ remoteBranches = {}
    /\ FailedOf({"rev-list ahead"})
    /\ ~repoResult.isNil
    /\ repoResult.err = Nil
    /\ repoResult.status.BaseBranch = Main
    /\ repoResult.status.CommitsAhead = 0

(***************************************************************************)
(* Properties of isBinaryFile.                                             *)
(***************************************************************************)
\* the same letter, whatever its case
SameLetter(c, d) ==
    \/ c = d
    \/ \E k \in 1..Len(UpperLetters) :
          {c, d} = {UpperLetters[k], LowerLetters[k]}

\* the path ends with the extension, letter case aside
EndsWithIgnoringCase(path, ext) ==
    /\ Len(ext) <= Len(path)
    /\ \A k \in 1..Len(ext) : SameLetter(path[Len(path) - Len(ext) + k], ext[k])

\* C21: isBinaryFile(path) is true exactly when the lower-cased path ends
\* with one of the fifteen fixed extensions, whatever the letter case of the
\* path and whatever the order in which the extension table is visited.
C21_BinaryByExtension ==
    op = "isBinaryFile" =>
        /\ parseOut <=> \E k \in 1..Len(extensionList) :
                            EndsWithIgnoringCase(parseArg, extensionList[k])
        /\ parseArg = <<"i", "m", "a", "g", "e", ".", "P", "N", "G">> => parseOut
        /\ parseArg = <<"m", "a", "i", "n", ".", "g", "o">> => ~parseOut

\* image.PNG, with the table visited from its last entry backwards
C21_Witness ==
    /\ op = "isBinaryFile"
    /\ parseArg = <<"i", "m", "a", "g", "e", ".", "P", "N", "G">>
    /\ rangeOrder[1] = <<".", "d", "b">>
    /\ rangeOrder[2] = <<".", "d", "a", "t">>
    /\ parseOut = TRUE

(***************************************************************************)
(* Properties of concurrent calls on one Analyzer.                         *)
(***************************************************************************)
\* C22: the repoPath of an Analyzer is never written after NewAnalyzer, and
\* in every interleaving of GetStatus, GetCommitHistory, GetCommitsSinceBase
\* and GetBranchDiff calls of two goroutines on one Analyzer, against an
\* unchanged repository, every call returns what it returns when run alone.
C22_SameAsAlone ==
    [][/\ (op # "idle" /\ op' # "idle") => repoPath' = repoPath
       /\ \A g \in Goroutines :
             calls'[g].pc = "done" =>
                 \E run \in RunAlone(repoPath', calls'[g].call) :
                     calls'[g].result = [torn |-> FALSE, value |-> run.value]]_vars

\* GetStatus has returned a status while GetBranchDiff of the other
\* goroutine is between its queries
C22_Witness ==
    /\ repoPath = ClonePath
    /\ calls[1].pc = "done"
    /\ calls[1].call.name = "GetStatus"
    /\ Len(calls[1].read) = 9
    /\ ~calls[1].result.value.isNil
    /\ calls[1].result.value.status.CurrentBranch = <<"d", "e", "v">>
    /\ calls[2].pc = "running"
    /\ calls[2].call.name = "GetBranchDiff"
    /\ Len(calls[2].read) = 2

(***************************************************************************)
(* The ship workflow.                                                      *)
(***************************************************************************)
RECURSIVE Rank(_, _)
\* the position of a step among the steps from position i on
Rank(step, i) == IF ShipSteps[i] = step THEN i ELSE Rank(step, i + 1)

Succeeded(step) == \E i \in 1 .. Len(performed) : performed[i] = [step |-> step, ok |-> TRUE]

\* the steps that are due in the call under way, from its flags and status
BranchDue == ~shipIn.dryRun /\ isOnDefault(shipIn.status) /\ hasFiles(shipIn.status)

CommitDue == ~shipIn.dryRun /\ hasFiles(shipIn.status)

PushDue ==
    /\ ~shipIn.dryRun /\ ~shipIn.noPush
    /\ (hasFiles(shipIn.status) \/ shipIn.status.CommitsAhead > 0)

DueBefore(step) ==
    {s \in {"branch", "stage", "commit", "push"} :
        /\ Rank(s, 1) < Rank(step, 1)
        /\ \/ s = "branch" /\ BranchDue
           \/ s \in {"stage", "commit"} /\ CommitDue
           \/ s = "push" /\ PushDue}

\* C23: the mutating steps of runShip run only in the order feature branch,
\* commit (staging, then the commit), push, pull request; a step is started
\* only after every earlier step that was due has succeeded; and when the
\* branch creation, the commit or the push fails, runShip returns an error
\* and performs none of the later steps.
C23_OrderAndAbort ==
    /\ \A i, j \in 1 .. Len(performed) :
          i < j => /\ Rank(performed[i].step, 1) < Rank(performed[j].step, 1)
                   /\ performed[i].ok
    /\ \A j \in 1 .. Len(performed) :
          \A s \in DueBefore(performed[j].step) : Succeeded(s)
    /\ \A i \in 1 .. Len(performed) :
          ~performed[i].ok => shipPc = "return" /\ shipErr # ""
    /\ shipPc = "return" /\ shipErr = "" =>
          \A i \in 1 .. Len(performed) : performed[i].ok

\* a run on the default branch whose push failed after the branch and the
\* commit were made
C23_Witness ==
    /\ shipPc = "return" /\ shipErr = "failed to push"
    /\ ~shipIn.noPR
    /\ performed = << [step |-> "branch", ok |-> TRUE], [step |-> "stage", ok |-> TRUE],
                      [step |-> "commit", ok |-> TRUE], [step |-> "push", ok |-> FALSE] >>

\* C24: with the dry-run flag runShip performs no mutating action, whatever
\* the status and the other flags: no branch, no staging, no commit, no
\* push, no pull request.
C24_DryRunMutatesNothing == shipIn.dryRun => performed = <<>>

\* a dry run that finished where all four steps would have been due
C24_Witness ==
    /\ shipIn.dryRun /\ ~shipIn.noPush /\ ~shipIn.noPR
    /\ isOnDefault(shipIn.status) /\ hasFiles(shipIn.status)
    /\ workflowPlan.NeedsBranch
    /\ needsPush
    /\ shipPc = "return" /\ shipErr = ""

\* C25: with --no-push runShip only commits: it neither pushes nor creates
\* a pull request, for every status.
C25_NoPushOnlyCommits ==
    shipIn.noPush =>
        \A i \in 1 .. Len(performed) : performed[i].step \notin {"push", "pr"}

(***************************************************************************)
(* ValidateConfig.                                                         *)
(***************************************************************************)
\* C26: ValidateConfig returns an error for every configuration whose git
\* commit limit is below 1, 0 included, even when every other field is
\* valid; and it returns no error for commit limit 10, max tokens 4096 and
\* diff context 3.
C26_LimitBelowOneRejected ==
    op = "ValidateConfig" =>
        /\ configArg.Git.CommitLimit < 1 => configErr # Nil
        /\ configArg = [ AI  |-> [Provider |-> AIProviderClaude, MaxTokens |-> 4096,
                                  Temperature |-> 7, ClaudeMaxTokens |-> 0],
                         Git |-> [CommitLimit |-> 10, DiffContext |-> 3,
                                  MaxDiffSize |-> 10000] ]
              => configErr = Nil

(***************************************************************************)
(* Per-file counts.                                                        *)
(***************************************************************************)
Added(delta) == IF delta = NoDelta THEN 0 ELSE delta[1]

Deleted(delta) == IF delta = NoDelta THEN 0 ELSE delta[2]

\* C27: the additions and deletions of a FileChange are the line counts of
\* its path in the diff its name-status line came from: the staged diff
\* and the unstaged diff for the listings of getDetailedFileChanges (their
\* sum after the merge for a path in both), the base-to-HEAD diff for the
\* listing of the branch comparison.
C27_CountsOfOwnDiff ==
    \A i \in 1 .. Len(treeResult) :
        LET entry == treeResult[i]
            own   == tree[entry.Path]
        IN  /\ op = "getDetailedFileChanges" =>
                /\ entry.Additions = Added(own["staged"]) + Added(own["unstaged"])
                /\ entry.Deletions = Deleted(own["staged"]) + Deleted(own["unstaged"])
            /\ op = "getBranchFileChanges" =>
                /\ entry.Additions = Added(own["branch"])
                /\ entry.Deletions = Deleted(own["branch"])

(***************************************************************************)
(* Duplicate records and the header round trip.                            *)
(***************************************************************************)
\* C28: for every log input, also one with a delimiter-holding line of
\* fewer than five fields, no header line gives rise to more than one
\* CommitRecord of parseCommitHistory, and no record is emitted twice: there
\* are at most as many records as header lines, and the k-th record is the
\* one of the k-th header line.
C28_NoRecordTwice ==
    (op = "GetCommitHistory" /\ logListing[HeadRef].ok /\ historyResult.err = Nil) =>
        LET lines   == logListing[HeadRef].out
            headers == HeaderIndexes(lines)
            records == historyResult.commits.items
        IN  /\ Len(records) <= Cardinality(headers)
            /\ \A k \in 1 .. Len(records) :
                  k <= Cardinality(headers) =>
                      records[k].Hash = Split(lines[Nth(headers, k)], "|")[1]

\* C29: the header format round-trips: parsing the line that joins hash,
\* subject, author, email and timestamp with "|" gives one CommitRecord
\* with the same five values, for every subject text.
C29_HeaderRoundTrip ==
    op = "logOfCommit" =>
        /\ parsedBack.err = Nil
        /\ Len(parsedBack.commits.items) = 1
        /\ LET record == parsedBack.commits.items[1]
           IN  /\ record.Hash = logged.hash
               /\ record.Message = logged.subject
               /\ record.Author = logged.author
               /\ record.Email = logged.email
               /\ record.Date = logged.time

(***************************************************************************)
(* The order of the merged entries.                                        *)
(***************************************************************************)
\* C30: mergeFileChanges is deterministic in its whole output: two calls
\* with the same input slice return the same sequence of FileChange
\* entries, in the same order.
C30_SameSequence == op = "mergeFileChangesSame" => remerged = merged

====
